---- MODULE Spec2Model ----
(***************************************************************************)
(* Model of the stealth test harness: TestURL and main (main.go), the      *)
(* proxy / ScraperAPI configuration (config.go, scraperapi.go) and the     *)
(* BrowserPool (profiles.go).                                              *)
(*                                                                         *)
(* Go strings are modelled as sequences of one-character strings, so that  *)
(* strings.ToLower, strings.Contains, strings.HasPrefix and len are        *)
(* computed and not assumed.                                               *)
(***************************************************************************)
EXTENDS Integers, Sequences, FiniteSets, TLC

VARIABLES
    env,        \* process environment: the PROXY_ and SCRAPER_ variables the code reads
    testURLs,   \* main: the list of URLs of the batch
    web,        \* web[i]: the document (title, body) the site of testURLs[i] serves
    pc,         \* main: "loop" | "run" (inside chromedp.Run) | "ret" | "done"
    idx,        \* main: position of the for-range loop over testURLs
    step,       \* TestURL: index of the next action of chromedp.Run
    err,        \* TestURL: error returned by chromedp.Run (Nil: none)
    title,      \* TestURL: local title
    bodyHTML,   \* TestURL: local bodyHTML
    buf,        \* TestURL: local screenshot buffer
    sent,       \* commands the remote browser received in the current session
    results,    \* main: results
    counts,     \* main: successCount, blockCount, errorCount
    Agents,     \* BrowserPool.Agents: ID -> agent
    MaxAgents,  \* BrowserPool.MaxAgents
    lastCall,   \* the last BrowserPool call and what it returned
    live,       \* TestURL: the contexts created and not yet cancelled
    workers,    \* goroutines calling AddAgent on the shared pool: position and argument
    identity,   \* the AIAgent under use (NoAgent: none created yet)
    call,       \* the last call of a profile, header, script or URL function: op, arg, ret
    proxyConfig, \* the ProxyConfig object: URL, Type, RotationEnabled, ProxyList, CurrentIndex
    mu,         \* ProxyConfig.mu: the goroutines that hold the lock, and how
    heap,       \* the maps allocated so far: address -> contents
    fleet,      \* the AIAgents created so far: ID -> agent, its maps held by address
    sim         \* the BehaviorSimulator primitive under way: its locals and the clock

vars == <<env, testURLs, web, pc, idx, step, err, title, bodyHTML, buf, sent, results, counts, Agents, MaxAgents, lastCall, live, workers, identity, call, proxyConfig, mu, heap, fleet, sim>>

mainVars == <<env, testURLs, web, pc, idx, step, err, title, bodyHTML, buf, sent, results, counts, live>>

poolVars == <<Agents, MaxAgents, lastCall>>

identVars == <<identity, call>>

proxyVars == <<proxyConfig, mu>>

cookieVars == <<heap, fleet>>

libVars == <<proxyVars, cookieVars, sim>>

-----------------------------------------------------------------------------
(* Bounds of the model *)

\* number of fragments a served body is assembled from
MaxFrags == 2

\* number of URLs of the batch (a prefix of main's testURLs)
MaxURLs == 2

\* largest ceiling a pool is created with
MaxCeiling == 2

\* number of goroutines that share one pool
NumWorkers == 2

-----------------------------------------------------------------------------
(* Strings *)

Nil == <<>>

UpperCase == <<"A", "B", "C", "D", "E", "F", "G", "H", "I", "J", "K", "L", "M", "N", "O", "P", "Q", "R", "S", "T", "U", "V", "W", "X", "Y", "Z">>

LowerCase == <<"a", "b", "c", "d", "e", "f", "g", "h", "i", "j", "k", "l", "m", "n", "o", "p", "q", "r", "s", "t", "u", "v", "w", "x", "y", "z">>

ToLowerChar(c) ==
    IF \E i \in 1..Len(UpperCase) : UpperCase[i] = c
    THEN LowerCase[CHOOSE i \in 1..Len(UpperCase) : UpperCase[i] = c]
    ELSE c

\* strings.ToLower
ToLower(s) == [i \in 1..Len(s) |-> ToLowerChar(s[i])]

\* strings.Contains
Contains(s, sub) ==
    \E i \in 0..(Len(s) - Len(sub)) : \A j \in 1..Len(sub) : s[i + j] = sub[j]

\* strings.HasPrefix
HasPrefix(s, prefix) ==
    /\ Len(s) >= Len(prefix)
    /\ \A j \in 1..Len(prefix) : s[j] = prefix[j]

-----------------------------------------------------------------------------
(* TestURL: classification of a finished navigation *)

MinContentLength == 500

SnippetLength == 300

cfIndicators == <<
    <<"c", "l", "o", "u", "d", "f", "l", "a", "r", "e">>,
    <<"c", "h", "a", "l", "l", "e", "n", "g", "e">>,
    <<"c", "h", "e", "c", "k", "i", "n", "g", " ", "y", "o", "u", "r", " ", "b", "r", "o", "w", "s", "e", "r">>,
    <<"e", "r", "r", "o", "r", " ", "1", "0", "2", "0">>,
    <<"p", "l", "e", "a", "s", "e", " ", "w", "a", "i", "t">>,
    <<"r", "a", "y", " ", "i", "d">>,
    <<"c", "f", "-", "c", "h", "a", "l", "l", "e", "n", "g", "e">>,
    <<"c", "f", "-", "c", "h", "l">>,
    <<"j", "u", "s", "t", " ", "a", " ", "m", "o", "m", "e", "n", "t">> >>

ERR_HTTP2_PROTOCOL_ERROR == <<"E", "R", "R", "_", "H", "T", "T", "P", "2", "_", "P", "R", "O", "T", "O", "C", "O", "L", "_", "E", "R", "R", "O", "R">>

SoftErrorMessage == <<"H", "T", "T", "P", "/", "2", " ", "p", "r", "o", "t", "o", "c", "o", "l", " ", "e", "r", "r", "o", "r", " ", "(", "s", "i", "t", "e", " ", "m", "a", "y", " ", "b", "l", "o", "c", "k", " ", "a", "u", "t", "o", "m", "a", "t", "e", "d", " ", "a", "c", "c", "e", "s", "s", ")">>

\* a text holds one of the challenge signatures, compared as written
HasSignature(text) ==
    \E k \in 1..Len(cfIndicators) : Contains(text, cfIndicators[k])

HasCloudflareCaseSensitive(body) == HasSignature(body)

\* the indicator loop: strings.Contains(strings.ToLower(bodyHTML), indicator)
HasCloudflare(body) == HasSignature(ToLower(body))

IsSuccessIgnoringTitle(hasCF, t, body) == ~hasCF /\ Len(body) > MinContentLength

IsSuccessAtThreshold(hasCF, t, body) == ~hasCF /\ Len(body) >= MinContentLength /\ Len(t) > 0

\* !result.HasCloudflare && len(bodyHTML) > 500 && len(title) > 0
IsSuccess(hasCF, t, body) == ~hasCF /\ Len(body) > MinContentLength /\ Len(t) > 0

\* bodyHTML[:300] when longer than 300, else bodyHTML
Snippet(body) == IF Len(body) > SnippetLength THEN SubSeq(body, 1, SnippetLength) ELSE body

\* the TestResult TestURL returns, from what chromedp.Run left behind
TestResultOfVerbatim(url, t, body, e) ==
    [URL |-> url, Title |-> t, ContentLength |-> Len(body),
     HasCloudflare |-> IF e = Nil THEN HasCloudflare(body) ELSE FALSE,
     Success |-> IF e = Nil THEN IsSuccess(HasCloudflare(body), t, body) ELSE FALSE,
     ErrorMessage |-> e,
     ContentSnippet |-> IF e = Nil THEN Snippet(body) ELSE Nil]

TestResultOfClassifyAlways(url, t, body, e) ==
    [URL |-> url, Title |-> t, ContentLength |-> Len(body),
     HasCloudflare |-> HasCloudflare(body),
     Success |-> IsSuccess(HasCloudflare(body), t, body),
     ErrorMessage |-> IF e = Nil THEN Nil
                      ELSE IF Contains(e, ERR_HTTP2_PROTOCOL_ERROR) THEN SoftErrorMessage ELSE e,
     ContentSnippet |-> Snippet(body)]

TestResultOf(url, t, body, e) ==
    LET base == [URL |-> url, Title |-> t, ContentLength |-> Len(body),
                 HasCloudflare |-> FALSE, Success |-> FALSE,
                 ErrorMessage |-> Nil, ContentSnippet |-> Nil]
    IN  IF e # Nil
        THEN IF Contains(e, ERR_HTTP2_PROTOCOL_ERROR)
             THEN [base EXCEPT !.ErrorMessage = SoftErrorMessage]
             ELSE [base EXCEPT !.ErrorMessage = e]
        ELSE LET cf == HasCloudflare(body)
             IN  [base EXCEPT !.HasCloudflare = cf,
                              !.Success = IsSuccess(cf, t, body),
                              !.ContentSnippet = Snippet(body)]

-----------------------------------------------------------------------------
(* Configuration read from the environment: config.go, scraperapi.go *)

NoError == "nil"

\* NewProxyConfig: PROXY_TYPE, or the type inferred from the URL's prefix
NewProxyConfig(e) ==
    [URL  |-> e.PROXY_URL,
     Type |-> IF e.PROXY_TYPE = Nil /\ e.PROXY_URL # Nil
              THEN IF HasPrefix(e.PROXY_URL, <<"s", "o", "c", "k", "s", "5", ":", "/", "/">>)
                   THEN <<"s", "o", "c", "k", "s", "5">>
                   ELSE IF HasPrefix(e.PROXY_URL, <<"h", "t", "t", "p", "s", ":", "/", "/">>)
                        THEN <<"h", "t", "t", "p", "s">>
                        ELSE <<"h", "t", "t", "p">>
              ELSE e.PROXY_TYPE,
     RotationEnabled |-> ToLower(e.PROXY_ROTATION_ENABLED) = <<"t", "r", "u", "e">>,
     ProxyList |-> <<>>,
     CurrentIndex |-> 0]

\* ProxyConfig.IsEnabled
ProxyIsEnabled(c) ==
    /\ c.URL # Nil
    /\ c.URL # <<"n", "o", "n", "e">>
    /\ c.URL # <<"d", "i", "s", "a", "b", "l", "e", "d">>

validTypes == {<<"h", "t", "t", "p">>, <<"h", "t", "t", "p", "s">>, <<"s", "o", "c", "k", "s", "5">>}

\* ProxyConfig.ValidateConfiguration: NoError, or the error it returns
ProxyValidateConfiguration(c) ==
    IF ~ProxyIsEnabled(c) THEN NoError
    ELSE IF c.URL = Nil THEN "proxy URL is empty"
    ELSE IF ~Contains(c.URL, <<":", "/", "/">>) THEN "invalid proxy URL format"
    ELSE IF c.Type # Nil /\ c.Type \notin validTypes THEN "invalid proxy type"
    ELSE NoError

MinAPIKeyLength == 10

\* NewScraperAPIConfig
NewScraperAPIConfig(e) ==
    [APIKey  |-> e.SCRAPER_API_KEY,
     Enabled |-> e.SCRAPER_API_KEY # Nil /\ e.SCRAPER_API_KEY # <<"n", "o", "n", "e">>,
     RenderJS |-> ToLower(e.SCRAPER_RENDER_JS) = <<"t", "r", "u", "e">>,
     CountryCode |-> e.SCRAPER_COUNTRY_CODE,
     Timeout |-> 10000]

\* ScraperAPIConfig.ValidateConfiguration: NoError, or the error it returns
ScraperValidateConfiguration(c) ==
    IF ~c.Enabled THEN NoError
    ELSE IF c.APIKey = Nil THEN "SCRAPER_API_KEY environment variable is not set"
    ELSE IF Len(c.APIKey) < MinAPIKeyLength THEN "API key appears to be invalid (too short)"
    ELSE NoError

\* the configuration the environment describes passes both validations
ConfigurationValid(e) ==
    /\ ProxyValidateConfiguration(NewProxyConfig(e)) = NoError
    /\ ScraperValidateConfiguration(NewScraperAPIConfig(e)) = NoError

-----------------------------------------------------------------------------
(* TestURL: the actions handed to chromedp.Run, in order *)

TestURLActionsNavigateFirst == <<"Navigate", "Sleep", "AddScriptToEvaluateOnNewDocument", "Sleep", "Title", "Evaluate", "FullScreenshot">>

TestURLActions == <<"AddScriptToEvaluateOnNewDocument", "Sleep", "Navigate", "Sleep", "Title", "Evaluate", "FullScreenshot">>

ErrDeadline == <<"c", "o", "n", "t", "e", "x", "t", " ", "d", "e", "a", "d", "l", "i", "n", "e", " ", "e", "x", "c", "e", "e", "d", "e", "d">>

ErrHTTP2 == <<"p", "a", "g", "e", " ", "l", "o", "a", "d", " ", "e", "r", "r", "o", "r", " ", "n", "e", "t", ":", ":", "E", "R", "R", "_", "H", "T", "T", "P", "2", "_", "P", "R", "O", "T", "O", "C", "O", "L", "_", "E", "R", "R", "O", "R">>

\* the errors an action of chromedp.Run can end with: the 30 s context
\* deadline at any action, a refused page load at Navigate
ErrorsAt(a) == IF a = "Navigate" THEN {ErrDeadline, ErrHTTP2} ELSE {ErrDeadline}

\* the commands that reach the remote browser (Sleep sends none)
IsCommand(a) == a # "Sleep"

-----------------------------------------------------------------------------
(* main: the summary loop *)

TallyStopAtError(c, r) ==
    IF c.errorCount > 0 THEN c
    ELSE IF r.ErrorMessage # Nil THEN [c EXCEPT !.errorCount = @ + 1]
    ELSE IF r.HasCloudflare THEN [c EXCEPT !.blockCount = @ + 1]
    ELSE IF r.Success THEN [c EXCEPT !.successCount = @ + 1]
    ELSE c

\* one iteration of the summary loop: the if / else-if chain over a result
Tally(c, r) ==
    IF r.ErrorMessage # Nil THEN [c EXCEPT !.errorCount = @ + 1]
    ELSE IF r.HasCloudflare THEN [c EXCEPT !.blockCount = @ + 1]
    ELSE IF r.Success THEN [c EXCEPT !.successCount = @ + 1]
    ELSE c

ZeroCounts == [successCount |-> 0, blockCount |-> 0, errorCount |-> 0]

RECURSIVE AggregateFrom(_, _, _)
AggregateFrom(rs, i, c) ==
    IF i > Len(rs) THEN c ELSE AggregateFrom(rs, i + 1, Tally(c, rs[i]))

\* the counts the summary loop leaves for a result sequence
Aggregate(rs) == AggregateFrom(rs, 1, ZeroCounts)

-----------------------------------------------------------------------------
(* The documents a site can serve *)

Filler == [i \in 1..MinContentLength |-> "x"]

HelloBody == <<"<", "p", ">", "H", "e", "l", "l", "o", "<", "/", "p", ">">>

OKBody == <<"<", "h", "t", "m", "l", ">", "<", "b", "o", "d", "y", ">", "O", "K", "<", "/", "b", "o", "d", "y", ">", "<", "/", "h", "t", "m", "l", ">">>

JustAMoment == <<"J", "u", "s", "t", " ", "a", " ", "m", "o", "m", "e", "n", "t", ".", ".", ".">>

CheckingUpper == <<"C", "H", "E", "C", "K", "I", "N", "G", " ", "Y", "O", "U", "R", " ", "B", "R", "O", "W", "S", "E", "R">>

ExampleTitle == <<"E", "x", "a", "m", "p", "l", "e">>

\* the pieces bodies are assembled from: filler of exactly the threshold
\* length, plain markup, signatures in mixed and upper case, and the two
\* halves of "Ray ID"
Fragments == {
    Filler, HelloBody, OKBody, JustAMoment, CheckingUpper,
    <<"R", "a", "y">>, <<" ", "I", "D">> }

RECURSIVE Bodies(_)
Bodies(n) ==
    IF n = 0 THEN {Nil}
    ELSE Bodies(n - 1) \cup {b \o f : b \in Bodies(n - 1), f \in Fragments}

Titles == {Nil, ExampleTitle, JustAMoment}

\* every document of the classifier's input space, within MaxFrags
AllPages == [title : Titles, body : Bodies(MaxFrags)]

\* one document of each class, for the batch
BatchPages == {
    [title |-> ExampleTitle, body |-> Filler \o HelloBody],
    [title |-> JustAMoment,  body |-> JustAMoment],
    [title |-> ExampleTitle, body |-> OKBody] }

\* the environments a run is started in: no proxy, a well-formed proxy and
\* key, a proxy URL without scheme, a proxy type that is none of the three,
\* an API key that is too short
Environments == {
    [PROXY_URL |-> Nil, PROXY_TYPE |-> Nil, SCRAPER_API_KEY |-> Nil,
       SCRAPER_RENDER_JS |-> Nil, SCRAPER_COUNTRY_CODE |-> Nil,
       PROXY_ROTATION_ENABLED |-> Nil, PROXY_LIST_FILE |-> ""],
    [PROXY_URL |-> <<"h", "t", "t", "p", ":", "/", "/", "p", "r", "o", "x", "y", ":", "8", "0", "8", "0">>, PROXY_TYPE |-> Nil,
     SCRAPER_API_KEY |-> <<"0", "1", "2", "3", "4", "5", "6", "7", "8", "9", "a", "b", "c", "d", "e", "f">>,
       SCRAPER_RENDER_JS |-> Nil, SCRAPER_COUNTRY_CODE |-> Nil,
       PROXY_ROTATION_ENABLED |-> Nil, PROXY_LIST_FILE |-> ""],
    [PROXY_URL |-> <<"p", "r", "o", "x", "y", ":", "8", "0", "8", "0">>, PROXY_TYPE |-> Nil, SCRAPER_API_KEY |-> Nil,
       SCRAPER_RENDER_JS |-> Nil, SCRAPER_COUNTRY_CODE |-> Nil,
       PROXY_ROTATION_ENABLED |-> Nil, PROXY_LIST_FILE |-> ""],
    [PROXY_URL |-> <<"s", "o", "c", "k", "s", "5", ":", "/", "/", "p", "r", "o", "x", "y", ":", "1", "0", "8", "0">>, PROXY_TYPE |-> <<"f", "t", "p">>, SCRAPER_API_KEY |-> Nil,
       SCRAPER_RENDER_JS |-> Nil, SCRAPER_COUNTRY_CODE |-> Nil,
       PROXY_ROTATION_ENABLED |-> Nil, PROXY_LIST_FILE |-> ""],
    [PROXY_URL |-> Nil, PROXY_TYPE |-> Nil, SCRAPER_API_KEY |-> <<"a", "b", "c", "1", "2", "3">>,
       SCRAPER_RENDER_JS |-> Nil, SCRAPER_COUNTRY_CODE |-> Nil,
       PROXY_ROTATION_ENABLED |-> Nil, PROXY_LIST_FILE |-> ""] }

\* main's table of test URLs
AllTestURLs == <<"https://www.flipkart.com/", "https://www.ebay.com/", "https://www.booking.com/", "https://www.indeed.com/", "https://www.reddit.com/", "https://example.com/">>

-----------------------------------------------------------------------------
(* main and TestURL as a state machine *)

NoPool == [op |-> "none", id |-> "", err |-> NoError]

NoAgent == [ID |-> ""]

NoCall == [op |-> "none"]

\* ctx, allocContext and browserCtx, each created with its cancel function
TestURLContexts == {"ctx", "allocContext", "browserCtx"}

ReleaseContextsOnSuccessOnly(contexts, e) == IF e # Nil THEN contexts ELSE {}

\* defer cancel(), defer cancelAlloc(), defer cancelBrowser(): all three run
\* on every return of TestURL
ReleaseContexts(contexts, e) == {}

InitMain(urls, pages) ==
    /\ testURLs = urls
    /\ web \in [1..Len(urls) -> pages]
    /\ pc = "loop"
    /\ idx = 1
    /\ step = 0
    /\ err = Nil
    /\ title = Nil
    /\ bodyHTML = Nil
    /\ buf = "empty"
    /\ sent = <<>>
    /\ results = <<>>
    /\ counts = ZeroCounts
    /\ live = {}

IdlePool ==
    /\ Agents = <<>>
    /\ MaxAgents = 0
    /\ lastCall = NoPool
    /\ workers = <<>>

\* no ProxyConfig created
IdleProxy ==
    /\ proxyConfig = <<>>
    /\ mu = <<>>

\* no map allocated, no agent created
IdleCookies ==
    /\ heap = <<>>
    /\ fleet = <<>>

\* no primitive of the BehaviorSimulator called
IdleSimulator == sim = <<>>

IdleLibrary == IdleProxy /\ IdleCookies /\ IdleSimulator

\* no identity created, no function called
IdleIdentity ==
    /\ identity = NoAgent
    /\ call = NoCall

\* a batch over the first MaxURLs test URLs
Init ==
    /\ env \in Environments
    /\ InitMain(SubSeq(AllTestURLs, 1, MaxURLs), BatchPages)
    /\ IdlePool
    /\ IdleIdentity
    /\ IdleLibrary

\* TestURL on one URL, over the whole input space of the classifier
InitClassify ==
    /\ env = [PROXY_URL |-> Nil, PROXY_TYPE |-> Nil, SCRAPER_API_KEY |-> Nil,
       SCRAPER_RENDER_JS |-> Nil, SCRAPER_COUNTRY_CODE |-> Nil,
       PROXY_ROTATION_ENABLED |-> Nil, PROXY_LIST_FILE |-> ""]
    /\ InitMain(<<"https://example.test/">>, AllPages)
    /\ IdlePool
    /\ IdleIdentity
    /\ IdleLibrary

\* main calls TestURL(test.url): contexts are created, chromedp.Run starts
CallTestURL ==
    /\ pc = "loop"
    /\ idx <= Len(testURLs)
    /\ pc' = "run"
    /\ step' = 1
    /\ err' = Nil
    /\ title' = Nil
    /\ bodyHTML' = Nil
    /\ buf' = "empty"
    /\ sent' = <<>>
    /\ live' = TestURLContexts
    /\ UNCHANGED <<env, testURLs, web, idx, results, counts>>
    /\ UNCHANGED <<poolVars, workers, identVars, libVars>>

\* chromedp.Run: the next action succeeds
RunAction ==
    /\ pc = "run"
    /\ step <= Len(TestURLActions)
    /\ LET a == TestURLActions[step]
       IN  /\ sent' = IF IsCommand(a) THEN Append(sent, a) ELSE sent
           /\ title' = IF a = "Title" THEN web[idx].title ELSE title
           /\ bodyHTML' = IF a = "Evaluate" THEN web[idx].body ELSE bodyHTML
           /\ buf' = IF a = "FullScreenshot" THEN "png" ELSE buf
    /\ step' = step + 1
    /\ pc' = IF step = Len(TestURLActions) THEN "ret" ELSE "run"
    /\ UNCHANGED <<env, testURLs, web, idx, err, results, counts, live>>
    /\ UNCHANGED <<poolVars, workers, identVars, libVars>>

\* chromedp.Run: the next action is issued and fails; Run returns its error
\* and the remaining actions are not run
RunFail ==
    /\ pc = "run"
    /\ step <= Len(TestURLActions)
    /\ \E e \in ErrorsAt(TestURLActions[step]) : err' = e
    /\ sent' = IF IsCommand(TestURLActions[step])
               THEN Append(sent, TestURLActions[step]) ELSE sent
    /\ pc' = "ret"
    /\ UNCHANGED <<env, testURLs, web, idx, step, title, bodyHTML, buf, results, counts, live>>
    /\ UNCHANGED <<poolVars, workers, identVars, libVars>>

NextIndexStopOnError(i, r) == IF r.ErrorMessage # Nil THEN Len(testURLs) + 1 ELSE i + 1

\* the for-range loop of main goes on to the next URL whatever TestURL returned
NextIndex(i, r) == i + 1

\* TestURL classifies and returns, its deferred cancels run; main appends
\* the result
ReturnTestURL ==
    /\ pc = "ret"
    /\ LET r == TestResultOf(testURLs[idx], title, bodyHTML, err)
       IN  /\ results' = Append(results, r)
           /\ idx' = NextIndex(idx, r)
    /\ live' = ReleaseContexts(live, err)
    /\ pc' = "loop"
    /\ UNCHANGED <<env, testURLs, web, step, err, title, bodyHTML, buf, sent, counts>>
    /\ UNCHANGED <<poolVars, workers, identVars, libVars>>

\* main: the summary loop over results
Summarise ==
    /\ pc = "loop"
    /\ idx > Len(testURLs)
    /\ counts' = Aggregate(results)
    /\ pc' = "done"
    /\ UNCHANGED <<env, testURLs, web, idx, step, err, title, bodyHTML, buf, sent, results, live>>
    /\ UNCHANGED <<poolVars, workers, identVars, libVars>>

Next ==
    \/ CallTestURL
    \/ RunAction
    \/ RunFail
    \/ ReturnTestURL
    \/ Summarise

Spec == Init /\ [][Next]_vars

\* a batch over the first MaxURLs test URLs with a valid configuration, every
\* site serving the same document
InitFair ==
    /\ env = [PROXY_URL |-> Nil, PROXY_TYPE |-> Nil, SCRAPER_API_KEY |-> Nil,
       SCRAPER_RENDER_JS |-> Nil, SCRAPER_COUNTRY_CODE |-> Nil,
       PROXY_ROTATION_ENABLED |-> Nil, PROXY_LIST_FILE |-> ""]
    /\ InitMain(SubSeq(AllTestURLs, 1, MaxURLs), {[title |-> ExampleTitle, body |-> OKBody]})
    /\ IdlePool
    /\ IdleIdentity
    /\ IdleLibrary

\* main is one goroutine that is always scheduled, and chromedp.Run returns
\* once the 30 s deadline of ctx has passed: a step that can be taken is taken
SpecFair == InitFair /\ [][Next]_vars /\ WF_vars(Next)

SpecClassify == InitClassify /\ [][Next]_vars

-----------------------------------------------------------------------------
(* BrowserPool *)

AgentIDs == {"agent-1", "agent-2", "agent-3"}

ProfileNames == {"Windows Chrome 120", "macOS Safari 17"}

\* the agents handed to the pool: an ID and the profile it was created with
AgentValues == [ID : AgentIDs, Profile : ProfileNames]

PoolFull == "pool is full"

\* len(bp.Agents)
GetPoolSize == Cardinality(DOMAIN Agents)

IsFullOffByOne(n, max) == n > max

\* the capacity check of AddAgent: len(bp.Agents) >= bp.MaxAgents
IsFull(n, max) == n >= max

StoreAlone(m, agent) == [id \in {agent.ID} |-> agent]

StoreIfAbsent(m, agent) == [id \in DOMAIN m \cup {agent.ID} |-> IF id \in DOMAIN m THEN m[id] ELSE agent]

\* bp.Agents[agent.ID] = agent
Store(m, agent) == [id \in DOMAIN m \cup {agent.ID} |-> IF id = agent.ID THEN agent ELSE m[id]]

\* delete(bp.Agents, id)
Delete(m, id) == [k \in DOMAIN m \ {id} |-> m[k]]

\* NewBrowserPool(maxAgents)
InitPool ==
    /\ env = [PROXY_URL |-> Nil, PROXY_TYPE |-> Nil, SCRAPER_API_KEY |-> Nil,
       SCRAPER_RENDER_JS |-> Nil, SCRAPER_COUNTRY_CODE |-> Nil,
       PROXY_ROTATION_ENABLED |-> Nil, PROXY_LIST_FILE |-> ""]
    /\ InitMain(<<>>, BatchPages)
    /\ Agents = <<>>
    /\ MaxAgents \in -1..MaxCeiling
    /\ lastCall = NoPool
    /\ workers = <<>>
    /\ IdleIdentity
    /\ IdleLibrary

\* BrowserPool.AddAgent
AddAgent(agent) ==
    /\ IF IsFull(GetPoolSize, MaxAgents)
       THEN /\ lastCall' = [op |-> "AddAgent", id |-> agent.ID, err |-> PoolFull]
            /\ UNCHANGED Agents
       ELSE /\ Agents' = Store(Agents, agent)
            /\ lastCall' = [op |-> "AddAgent", id |-> agent.ID, err |-> NoError]
    /\ UNCHANGED MaxAgents
    /\ UNCHANGED <<mainVars, workers, identVars, libVars>>

\* BrowserPool.RemoveAgent
RemoveAgent(id) ==
    /\ Agents' = Delete(Agents, id)
    /\ lastCall' = [op |-> "RemoveAgent", id |-> id, err |-> NoError]
    /\ UNCHANGED MaxAgents
    /\ UNCHANGED <<mainVars, workers, identVars, libVars>>

NextPool ==
    \/ \E agent \in AgentValues : AddAgent(agent)
    \/ \E id \in AgentIDs : RemoveAgent(id)

SpecPool == InitPool /\ [][NextPool]_vars

-----------------------------------------------------------------------------
(* BrowserPool shared by goroutines: AddAgent takes no lock, so its capacity *)
(* check and its map insertion are separate steps of each caller            *)

Workers == 1..NumWorkers

\* NewBrowserPool(maxAgents), and one AddAgent call about to start in each
\* goroutine
InitPoolConcurrent ==
    /\ env = [PROXY_URL |-> Nil, PROXY_TYPE |-> Nil, SCRAPER_API_KEY |-> Nil,
       SCRAPER_RENDER_JS |-> Nil, SCRAPER_COUNTRY_CODE |-> Nil,
       PROXY_ROTATION_ENABLED |-> Nil, PROXY_LIST_FILE |-> ""]
    /\ InitMain(<<>>, BatchPages)
    /\ Agents = <<>>
    /\ MaxAgents \in 0..MaxCeiling
    /\ lastCall = NoPool
    /\ workers \in [Workers -> [pc : {"check"}, agent : AgentValues]]
    /\ IdleIdentity
    /\ IdleLibrary

\* AddAgent, first statement: if len(bp.Agents) >= bp.MaxAgents { return error }
WorkerCheck(w) ==
    /\ workers[w].pc = "check"
    /\ workers' = [workers EXCEPT ![w].pc = IF IsFull(GetPoolSize, MaxAgents) THEN "rejected" ELSE "store"]
    /\ UNCHANGED <<poolVars, mainVars, identVars, libVars>>

\* AddAgent, second statement: bp.Agents[agent.ID] = agent
WorkerStore(w) ==
    /\ workers[w].pc = "store"
    /\ Agents' = Store(Agents, workers[w].agent)
    /\ workers' = [workers EXCEPT ![w].pc = "done"]
    /\ UNCHANGED <<MaxAgents, lastCall, mainVars, identVars, libVars>>

\* two goroutines are in the map insertion at once: the Go runtime may end
\* the process with "fatal error: concurrent map writes"
ConcurrentMapWrites ==
    /\ \E v, w \in Workers : v # w /\ workers[v].pc = "store" /\ workers[w].pc = "store"
    /\ workers' = [w \in Workers |-> [workers[w] EXCEPT !.pc = "crashed"]]
    /\ UNCHANGED <<poolVars, mainVars, identVars, libVars>>

NextPoolConcurrent ==
    \/ \E w \in Workers : WorkerCheck(w)
    \/ \E w \in Workers : WorkerStore(w)
    \/ ConcurrentMapWrites

SpecPoolConcurrent == InitPoolConcurrent /\ [][NextPoolConcurrent]_vars

-----------------------------------------------------------------------------
(* The profile catalog and its lookups *)

\* the catalog; names, tags and the other texts are compared whole, so they
\* are kept as strings; the graphics strings are searched, so they are
\* sequences of characters
StealthProfiles == <<
    [Name |-> "Windows Chrome 120",
     UserAgent |-> "Mozilla/5.0 (Windows NT 10.0; Win64; x64) AppleWebKit/537.36 (KHTML, like Gecko) Chrome/120.0.0.0 Safari/537.36",
     Platform |-> "Win32",
     VendorString |-> "Google Inc.",
     Language |-> "en-US",
     TimeZone |-> "America/New_York",
     ScreenWidth |-> 1920,
     ScreenHeight |-> 1080,
     WebGLVendor |-> <<"G", "o", "o", "g", "l", "e", " ", "I", "n", "c", ".", " ", "(", "G", "o", "o", "g", "l", "e", ")">>,
     WebGLRenderer |-> <<"A", "N", "G", "L", "E", " ", "(", "I", "n", "t", "e", "l", " ", "H", "D", " ", "G", "r", "a", "p", "h", "i", "c", "s", " ", "6", "3", "0", ",", " ", "O", "p", "e", "n", "G", "L", " ", "4", ".", "1", ")">>,
     MaxTouchPoints |-> 0,
     DeviceMemory |-> 8,
     HardwareConcurrency |-> 8],
    [Name |-> "MacOS Chrome 120",
     UserAgent |-> "Mozilla/5.0 (Macintosh; Intel Mac OS X 10_15_7) AppleWebKit/537.36 (KHTML, like Gecko) Chrome/120.0.0.0 Safari/537.36",
     Platform |-> "MacIntel",
     VendorString |-> "Google Inc.",
     Language |-> "en-US",
     TimeZone |-> "America/Los_Angeles",
     ScreenWidth |-> 1440,
     ScreenHeight |-> 900,
     WebGLVendor |-> <<"A", "p", "p", "l", "e", " ", "I", "n", "c", ".">>,
     WebGLRenderer |-> <<"A", "p", "p", "l", "e", " ", "M", "1">>,
     MaxTouchPoints |-> 0,
     DeviceMemory |-> 16,
     HardwareConcurrency |-> 8],
    [Name |-> "MacOS M1 Chrome 120",
     UserAgent |-> "Mozilla/5.0 (Macintosh; Intel Mac OS X 10_15_7) AppleWebKit/537.36 (KHTML, like Gecko) Chrome/120.0.0.0 Safari/537.36",
     Platform |-> "MacIntel",
     VendorString |-> "Google Inc.",
     Language |-> "en-US",
     TimeZone |-> "America/Denver",
     ScreenWidth |-> 1680,
     ScreenHeight |-> 1050,
     WebGLVendor |-> <<"A", "p", "p", "l", "e", " ", "I", "n", "c", ".">>,
     WebGLRenderer |-> <<"A", "N", "G", "L", "E", " ", "(", "A", "p", "p", "l", "e", ",", " ", "A", "p", "p", "l", "e", " ", "M", "1", ",", " ", "O", "p", "e", "n", "G", "L", " ", "4", ".", "1", ")">>,
     MaxTouchPoints |-> 0,
     DeviceMemory |-> 16,
     HardwareConcurrency |-> 8],
    [Name |-> "Linux Chrome 120",
     UserAgent |-> "Mozilla/5.0 (X11; Linux x86_64) AppleWebKit/537.36 (KHTML, like Gecko) Chrome/120.0.0.0 Safari/537.36",
     Platform |-> "Linux x86_64",
     VendorString |-> "Google Inc.",
     Language |-> "en-US",
     TimeZone |-> "Europe/London",
     ScreenWidth |-> 1920,
     ScreenHeight |-> 1080,
     WebGLVendor |-> <<"G", "o", "o", "g", "l", "e", " ", "I", "n", "c", ".", " ", "(", "G", "o", "o", "g", "l", "e", ")">>,
     WebGLRenderer |-> <<"A", "N", "G", "L", "E", " ", "(", "I", "n", "t", "e", "l", " ", "H", "D", " ", "G", "r", "a", "p", "h", "i", "c", "s", ",", " ", "O", "p", "e", "n", "G", "L", " ", "4", ".", "1", ")">>,
     MaxTouchPoints |-> 0,
     DeviceMemory |-> 8,
     HardwareConcurrency |-> 4],
    [Name |-> "Windows Edge 120",
     UserAgent |-> "Mozilla/5.0 (Windows NT 10.0; Win64; x64) AppleWebKit/537.36 (KHTML, like Gecko) Chrome/120.0.0.0 Safari/537.36 Edg/120.0.0.0",
     Platform |-> "Win32",
     VendorString |-> "Google Inc.",
     Language |-> "en-US",
     TimeZone |-> "America/Chicago",
     ScreenWidth |-> 1920,
     ScreenHeight |-> 1080,
     WebGLVendor |-> <<"G", "o", "o", "g", "l", "e", " ", "I", "n", "c", ".", " ", "(", "G", "o", "o", "g", "l", "e", ")">>,
     WebGLRenderer |-> <<"A", "N", "G", "L", "E", " ", "(", "N", "V", "I", "D", "I", "A", " ", "G", "e", "F", "o", "r", "c", "e", " ", "R", "T", "X", " ", "3", "0", "9", "0", ",", " ", "O", "p", "e", "n", "G", "L", " ", "4", ".", "1", ")">>,
     MaxTouchPoints |-> 0,
     DeviceMemory |-> 16,
     HardwareConcurrency |-> 12],
    [Name |-> "Windows Firefox 121",
     UserAgent |-> "Mozilla/5.0 (Windows NT 10.0; Win64; x64; rv:121.0) Gecko/20100101 Firefox/121.0",
     Platform |-> "Win32",
     VendorString |-> "",
     Language |-> "en-US",
     TimeZone |-> "America/New_York",
     ScreenWidth |-> 1920,
     ScreenHeight |-> 1080,
     WebGLVendor |-> <<"G", "o", "o", "g", "l", "e", " ", "I", "n", "c", ".", " ", "(", "G", "o", "o", "g", "l", "e", ")">>,
     WebGLRenderer |-> <<"A", "N", "G", "L", "E", " ", "(", "N", "V", "I", "D", "I", "A", " ", "G", "e", "F", "o", "r", "c", "e", " ", "G", "T", "X", " ", "1", "0", "8", "0", ",", " ", "O", "p", "e", "n", "G", "L", " ", "4", ".", "1", ")">>,
     MaxTouchPoints |-> 0,
     DeviceMemory |-> 8,
     HardwareConcurrency |-> 8],
    [Name |-> "MacOS Firefox 121",
     UserAgent |-> "Mozilla/5.0 (Macintosh; Intel Mac OS X 10.15; rv:121.0) Gecko/20100101 Firefox/121.0",
     Platform |-> "MacIntel",
     VendorString |-> "",
     Language |-> "en-US",
     TimeZone |-> "America/Los_Angeles",
     ScreenWidth |-> 1440,
     ScreenHeight |-> 900,
     WebGLVendor |-> <<"A", "p", "p", "l", "e", " ", "I", "n", "c", ".">>,
     WebGLRenderer |-> <<"A", "p", "p", "l", "e", " ", "M", "1">>,
     MaxTouchPoints |-> 0,
     DeviceMemory |-> 16,
     HardwareConcurrency |-> 8],
    [Name |-> "Linux Firefox 121",
     UserAgent |-> "Mozilla/5.0 (X11; Linux x86_64; rv:121.0) Gecko/20100101 Firefox/121.0",
     Platform |-> "Linux x86_64",
     VendorString |-> "",
     Language |-> "en-US",
     TimeZone |-> "Europe/Berlin",
     ScreenWidth |-> 1920,
     ScreenHeight |-> 1080,
     WebGLVendor |-> <<"G", "o", "o", "g", "l", "e", " ", "I", "n", "c", ".", " ", "(", "G", "o", "o", "g", "l", "e", ")">>,
     WebGLRenderer |-> <<"A", "N", "G", "L", "E", " ", "(", "I", "n", "t", "e", "l", " ", "I", "r", "i", "s", " ", "X", "e", " ", "G", "r", "a", "p", "h", "i", "c", "s", ",", " ", "O", "p", "e", "n", "G", "L", " ", "4", ".", "1", ")">>,
     MaxTouchPoints |-> 0,
     DeviceMemory |-> 8,
     HardwareConcurrency |-> 4],
    [Name |-> "Windows Chrome 121",
     UserAgent |-> "Mozilla/5.0 (Windows NT 10.0; Win64; x64) AppleWebKit/537.36 (KHTML, like Gecko) Chrome/121.0.0.0 Safari/537.36",
     Platform |-> "Win32",
     VendorString |-> "Google Inc.",
     Language |-> "en-US",
     TimeZone |-> "America/New_York",
     ScreenWidth |-> 1920,
     ScreenHeight |-> 1080,
     WebGLVendor |-> <<"G", "o", "o", "g", "l", "e", " ", "I", "n", "c", ".", " ", "(", "G", "o", "o", "g", "l", "e", ")">>,
     WebGLRenderer |-> <<"A", "N", "G", "L", "E", " ", "(", "I", "n", "t", "e", "l", " ", "H", "D", " ", "G", "r", "a", "p", "h", "i", "c", "s", " ", "6", "3", "0", ",", " ", "O", "p", "e", "n", "G", "L", " ", "4", ".", "1", ")">>,
     MaxTouchPoints |-> 0,
     DeviceMemory |-> 8,
     HardwareConcurrency |-> 8],
    [Name |-> "MacOS Chrome 121",
     UserAgent |-> "Mozilla/5.0 (Macintosh; Intel Mac OS X 10_15_7) AppleWebKit/537.36 (KHTML, like Gecko) Chrome/121.0.0.0 Safari/537.36",
     Platform |-> "MacIntel",
     VendorString |-> "Google Inc.",
     Language |-> "en-US",
     TimeZone |-> "America/Los_Angeles",
     ScreenWidth |-> 1440,
     ScreenHeight |-> 900,
     WebGLVendor |-> <<"A", "p", "p", "l", "e", " ", "I", "n", "c", ".">>,
     WebGLRenderer |-> <<"A", "p", "p", "l", "e", " ", "M", "1">>,
     MaxTouchPoints |-> 0,
     DeviceMemory |-> 16,
     HardwareConcurrency |-> 8] >>

RECURSIVE GetProfileByNameFrom(_, _)
GetProfileByNameFrom(name, i) ==
    IF i > Len(StealthProfiles) THEN StealthProfiles[1]
    ELSE IF StealthProfiles[i].Name = name THEN StealthProfiles[i]
    ELSE GetProfileByNameFrom(name, i + 1)

GetProfileByNameDefaultLast(name) ==
    IF \E i \in 1..Len(StealthProfiles) : StealthProfiles[i].Name = name
    THEN GetProfileByNameFrom(name, 1)
    ELSE StealthProfiles[Len(StealthProfiles)]

\* GetProfileByName: the first profile of that name, StealthProfiles[0] on a miss
GetProfileByName(name) == GetProfileByNameFrom(name, 1)

RECURSIVE GetProfilesByPlatformFrom(_, _, _)
GetProfilesByPlatformFrom(platform, i, profiles) ==
    IF i > Len(StealthProfiles) THEN profiles
    ELSE GetProfilesByPlatformFrom(platform, i + 1,
            IF StealthProfiles[i].Platform = platform
            THEN Append(profiles, StealthProfiles[i]) ELSE profiles)

GetProfilesByPlatformFirstOnly(platform) ==
    LET all == GetProfilesByPlatformFrom(platform, 1, <<>>)
    IN  IF all = <<>> THEN <<>> ELSE <<all[1]>>

\* GetProfilesByPlatform: the profiles of that platform, appended in catalog
\* order to a nil slice
GetProfilesByPlatform(platform) == GetProfilesByPlatformFrom(platform, 1, <<>>)

-----------------------------------------------------------------------------
(* AIAgent: headers *)

generateRealisticHeadersWindowsOnly(profile) ==
    LET headers ==
            [k \in {"User-Agent", "Accept", "Accept-Language", "Accept-Encoding", "Cache-Control",
                    "Sec-Fetch-Dest", "Sec-Fetch-Mode", "Sec-Fetch-Site", "Sec-Fetch-User",
                    "Upgrade-Insecure-Requests", "Sec-Ch-Ua", "Sec-Ch-Ua-Mobile", "Sec-Ch-Ua-Platform",
                    "DNT", "Connection", "Pragma"} |->
                CASE k = "User-Agent" -> profile.UserAgent
                  [] k = "Accept" -> "text/html,application/xhtml+xml,application/xml;q=0.9,image/webp,image/apng,*/*;q=0.8,application/signed-exchange;v=b3;q=0.7"
                  [] k = "Accept-Language" -> profile.Language
                  [] k = "Accept-Encoding" -> "gzip, deflate, br"
                  [] k = "Cache-Control" -> "max-age=0"
                  [] k = "Sec-Fetch-Dest" -> "document"
                  [] k = "Sec-Fetch-Mode" -> "navigate"
                  [] k = "Sec-Fetch-Site" -> "none"
                  [] k = "Sec-Fetch-User" -> "?1"
                  [] k = "Upgrade-Insecure-Requests" -> "1"
                  [] k = "Sec-Ch-Ua" -> "\"Not_A Brand\";v=\"8\", \"Chromium\";v=\"120\", \"Google Chrome\";v=\"120\""
                  [] k = "Sec-Ch-Ua-Mobile" -> "?0"
                  [] k = "Sec-Ch-Ua-Platform" -> "\"Windows\""
                  [] k = "DNT" -> "1"
                  [] k = "Connection" -> "keep-alive"
                  [] k = "Pragma" -> "no-cache"]
    IN  headers

\* generateRealisticHeaders
generateRealisticHeaders(profile) ==
    LET headers ==
            [k \in {"User-Agent", "Accept", "Accept-Language", "Accept-Encoding", "Cache-Control",
                    "Sec-Fetch-Dest", "Sec-Fetch-Mode", "Sec-Fetch-Site", "Sec-Fetch-User",
                    "Upgrade-Insecure-Requests", "Sec-Ch-Ua", "Sec-Ch-Ua-Mobile", "Sec-Ch-Ua-Platform",
                    "DNT", "Connection", "Pragma"} |->
                CASE k = "User-Agent" -> profile.UserAgent
                  [] k = "Accept" -> "text/html,application/xhtml+xml,application/xml;q=0.9,image/webp,image/apng,*/*;q=0.8,application/signed-exchange;v=b3;q=0.7"
                  [] k = "Accept-Language" -> profile.Language
                  [] k = "Accept-Encoding" -> "gzip, deflate, br"
                  [] k = "Cache-Control" -> "max-age=0"
                  [] k = "Sec-Fetch-Dest" -> "document"
                  [] k = "Sec-Fetch-Mode" -> "navigate"
                  [] k = "Sec-Fetch-Site" -> "none"
                  [] k = "Sec-Fetch-User" -> "?1"
                  [] k = "Upgrade-Insecure-Requests" -> "1"
                  [] k = "Sec-Ch-Ua" -> "\"Not_A Brand\";v=\"8\", \"Chromium\";v=\"120\", \"Google Chrome\";v=\"120\""
                  [] k = "Sec-Ch-Ua-Mobile" -> "?0"
                  [] k = "Sec-Ch-Ua-Platform" -> "\"Windows\""
                  [] k = "DNT" -> "1"
                  [] k = "Connection" -> "keep-alive"
                  [] k = "Pragma" -> "no-cache"]
    IN  IF profile.Platform = "MacIntel"
        THEN [headers EXCEPT !["Sec-Ch-Ua-Platform"] = "\"macOS\""]
        ELSE IF profile.Platform = "Linux x86_64"
             THEN [headers EXCEPT !["Sec-Ch-Ua-Platform"] = "\"Linux\""]
             ELSE headers

\* make(map[string]string)
EmptyMap == [k \in {} |-> ""]

\* NewAIAgentWithProfile; delay is the value rand.Intn(5000) + 2000 drew
NewAIAgentWithProfile(id, profile, delay) ==
    [ID |-> id, Profile |-> profile, Headers |-> generateRealisticHeaders(profile),
     Cookies |-> EmptyMap, RateLimit |-> 1, Delay |-> delay, RetryCount |-> 3, ProxyURL |-> ""]

HeadersWithDefaultsKeepingDefaults(a, customHeaders) ==
    [k \in DOMAIN a.Headers \cup DOMAIN customHeaders |->
        IF k \in DOMAIN a.Headers THEN a.Headers[k] ELSE customHeaders[k]]

\* AIAgent.HeadersWithDefaults: the defaults are copied, then the custom
\* headers are written over them
HeadersWithDefaults(a, customHeaders) ==
    [k \in DOMAIN a.Headers \cup DOMAIN customHeaders |->
        IF k \in DOMAIN customHeaders THEN customHeaders[k] ELSE a.Headers[k]]

-----------------------------------------------------------------------------
(* The stealth script *)

Digits == <<"0", "1", "2", "3", "4", "5", "6", "7", "8", "9">>

\* fmt's %d of a non-negative int64
RECURSIVE FormatNat(_)
FormatNat(n) ==
    IF n < 10 THEN <<Digits[n + 1]>>
    ELSE FormatNat(n \div 10) \o <<Digits[(n % 10) + 1]>>

\* fmt's %d
FormatInt(n) == IF n < 0 THEN <<"-">> \o FormatNat(0 - n) ELSE FormatNat(n)

\* DefaultStealthConfig; DevicePixelRatio is kept as the text %.1f prints
DefaultStealthConfig ==
    [UserAgent |-> "Mozilla/5.0 (Windows NT 10.0; Win64; x64) AppleWebKit/537.36 (KHTML, like Gecko) Chrome/120.0.0.0 Safari/537.36",
     Platform |-> "Win32", VendorString |-> "Google Inc.", Language |-> "en-US",
     TimeZoneID |-> "America/New_York", DevicePixelRatio |-> "1.0",
     ScreenWidth |-> 1920, ScreenHeight |-> 1080,
     WebGLVendor |-> <<"G", "o", "o", "g", "l", "e", " ", "I", "n", "c", ".", " ", "(", "G", "o", "o", "g", "l", "e", ")">>,
     WebGLRenderer |-> <<"A", "N", "G", "L", "E", " ", "(", "I", "n", "t", "e", "l", " ", "H", "D", " ", "G", "r", "a", "p", "h", "i", "c", "s", " ", "6", "3", "0", ",", " ", "O", "p", "e", "n", "G", "L", " ", "4", ".", "1", ")">>,
     MaxTouchPoints |-> 0, HasMediaDevices |-> TRUE, HasGeolocation |-> TRUE]

\* the StealthConfig of a profile, as the profile-rotation example builds it:
\* every field StealthConfig shares with BrowserProfile is copied.
\* StealthConfig has no field for DeviceMemory or HardwareConcurrency.
ConfigFromProfile(profile) ==
    [DefaultStealthConfig EXCEPT
        !.UserAgent = profile.UserAgent, !.Platform = profile.Platform,
        !.VendorString = profile.VendorString, !.Language = profile.Language,
        !.TimeZoneID = profile.TimeZone,
        !.ScreenWidth = profile.ScreenWidth, !.ScreenHeight = profile.ScreenHeight,
        !.WebGLVendor = profile.WebGLVendor, !.WebGLRenderer = profile.WebGLRenderer,
        !.MaxTouchPoints = profile.MaxTouchPoints]

\* BuildStealthScript: the script is its template with the fifteen values
\* formatted into it.  The model keeps, under the name of the JavaScript
\* property each getter overrides, the text the template puts there: the
\* formatted value of a configuration field, or the template's own literal.
BuildStealthScript(config) ==
    [userAgent |-> config.UserAgent,
     platform |-> config.Platform,
     vendor |-> config.VendorString,
     languages |-> config.Language,
     language |-> config.Language,
     glVendor |-> config.WebGLVendor,
     glRenderer |-> config.WebGLRenderer,
     hardwareConcurrency |-> <<"8">>,
     deviceMemory |-> <<"8">>,
     maxTouchPoints |-> FormatInt(config.MaxTouchPoints),
     width |-> FormatInt(config.ScreenWidth),
     height |-> FormatInt(config.ScreenHeight),
     availWidth |-> FormatInt(config.ScreenWidth),
     availHeight |-> FormatInt(config.ScreenHeight) \o <<" ", "-", " ", "4", "0">>,
     devicePixelRatio |-> config.DevicePixelRatio,
     colorDepth |-> <<"2", "4">>,
     pixelDepth |-> <<"2", "4">>,
     timeZone |-> config.TimeZoneID,
     acceptLanguage |-> config.Language]

-----------------------------------------------------------------------------
(* The identity operations, called in any order *)

\* names asked of GetProfileByName: the catalog's, and some it does not hold
LookupNames ==
    {StealthProfiles[i].Name : i \in 1..Len(StealthProfiles)}
        \cup {"", "windows chrome 120", "Safari 17"}

\* platform tags asked of GetProfilesByPlatform
LookupPlatforms ==
    {StealthProfiles[i].Platform : i \in 1..Len(StealthProfiles)}
        \cup {"", "win32", "iPhone"}

\* custom header maps handed to HeadersWithDefaults
CustomHeaders ==
    {EmptyMap,
     [k \in {"Accept-Language"} |-> "fr-FR"],
     [k \in {"X-Requested-With"} |-> "XMLHttpRequest"],
     [k \in {"Accept-Language", "X-Requested-With"} |->
         IF k = "Accept-Language" THEN "fr-FR" ELSE "XMLHttpRequest"],
     [k \in {"User-Agent", "DNT"} |-> IF k = "DNT" THEN "0" ELSE "curl/8.4.0"]}

\* the least and the greatest value of rand.Intn(5000) + 2000
Delays == {2000, 6999}

InitIdentity ==
    /\ env = [PROXY_URL |-> Nil, PROXY_TYPE |-> Nil, SCRAPER_API_KEY |-> Nil,
       SCRAPER_RENDER_JS |-> Nil, SCRAPER_COUNTRY_CODE |-> Nil,
       PROXY_ROTATION_ENABLED |-> Nil, PROXY_LIST_FILE |-> ""]
    /\ InitMain(<<>>, BatchPages)
    /\ IdlePool
    /\ IdleIdentity
    /\ IdleLibrary

CallGetProfileByName(name) ==
    /\ call' = [op |-> "GetProfileByName", arg |-> name, ret |-> GetProfileByName(name)]
    /\ UNCHANGED <<identity, mainVars, poolVars, workers, libVars>>

CallGetProfilesByPlatform(platform) ==
    /\ call' = [op |-> "GetProfilesByPlatform", arg |-> platform,
                ret |-> GetProfilesByPlatform(platform)]
    /\ UNCHANGED <<identity, mainVars, poolVars, workers, libVars>>

CallNewAIAgentWithProfile(id, profile, delay) ==
    /\ identity' = NewAIAgentWithProfile(id, profile, delay)
    /\ call' = [op |-> "NewAIAgentWithProfile", arg |-> profile, ret |-> id]
    /\ UNCHANGED <<mainVars, poolVars, workers, libVars>>

CallHeadersWithDefaults(customHeaders) ==
    /\ identity # NoAgent
    /\ call' = [op |-> "HeadersWithDefaults", arg |-> customHeaders,
                ret |-> HeadersWithDefaults(identity, customHeaders)]
    /\ UNCHANGED <<identity, mainVars, poolVars, workers, libVars>>

CallBuildStealthScript(profile) ==
    /\ call' = [op |-> "BuildStealthScript", arg |-> profile,
                ret |-> BuildStealthScript(ConfigFromProfile(profile))]
    /\ UNCHANGED <<identity, mainVars, poolVars, workers, libVars>>

NextIdentity ==
    \/ \E name \in LookupNames : CallGetProfileByName(name)
    \/ \E platform \in LookupPlatforms : CallGetProfilesByPlatform(platform)
    \/ \E id \in AgentIDs, i \in 1..Len(StealthProfiles), delay \in Delays :
          CallNewAIAgentWithProfile(id, StealthProfiles[i], delay)
    \/ \E customHeaders \in CustomHeaders : CallHeadersWithDefaults(customHeaders)
    \/ \E i \in 1..Len(StealthProfiles) : CallBuildStealthScript(StealthProfiles[i])

SpecIdentity == InitIdentity /\ [][NextIdentity]_vars

-----------------------------------------------------------------------------
(* ScraperAPIConfig.GetScraperURL *)

\* the ASCII characters from the space to the underscore; the character at
\* index i has code i + 31.  Of the characters after them QueryEscape escapes
\* only the backquote and { | }, which no URL of the model holds.
Ascii == <<" ", "!", "\"", "#", "$", "%", "&", "'", "(", ")", "*", "+", ",", "-", ".", "/", "0", "1", "2", "3", "4", "5", "6", "7", "8", "9", ":", ";", "<", "=", ">", "?", "@", "A", "B", "C", "D", "E", "F", "G", "H", "I", "J", "K", "L", "M", "N", "O", "P", "Q", "R", "S", "T", "U", "V", "W", "X", "Y", "Z", "[", "\\", "]", "^", "_">>

Code(c) == 31 + (CHOOSE i \in 1..Len(Ascii) : Ascii[i] = c)

HexDigits == <<"0", "1", "2", "3", "4", "5", "6", "7", "8", "9", "A", "B", "C", "D", "E", "F">>

\* url.shouldEscape in query-component mode: letters, digits and - _ . ~ are
\* kept, every other byte is escaped
ShouldEscape(c) ==
    ~ \/ \E i \in 1..Len(UpperCase) : UpperCase[i] = c \/ LowerCase[i] = c
      \/ \E i \in 1..Len(Digits) : Digits[i] = c
      \/ c \in {"-", "_", ".", "~"}

EscapeChar(c) ==
    IF c = " " THEN <<"+">>
    ELSE IF ShouldEscape(c)
         THEN <<"%", HexDigits[(Code(c) \div 16) + 1], HexDigits[(Code(c) % 16) + 1]>>
         ELSE <<c>>

QueryEscapeNothing(s) == s

\* url.QueryEscape
RECURSIVE QueryEscape(_)
QueryEscape(s) ==
    IF s = <<>> THEN <<>>
    ELSE EscapeChar(s[1]) \o QueryEscape(SubSeq(s, 2, Len(s)))

ScraperBase == <<"h", "t", "t", "p", ":", "/", "/", "a", "p", "i", ".", "s", "c", "r", "a", "p", "e", "r", "a", "p", "i", ".", "c", "o", "m", "?", "a", "p", "i", "_", "k", "e", "y", "=">>

\* ScraperAPIConfig.GetScraperURL
GetScraperURL(sc, targetURL) ==
    IF ~sc.Enabled THEN targetURL
    ELSE ScraperBase \o sc.APIKey
            \o <<"&", "u", "r", "l", "=">> \o QueryEscape(targetURL)
            \o (IF sc.RenderJS THEN <<"&", "r", "e", "n", "d", "e", "r", "=", "t", "r", "u", "e">> ELSE <<>>)
            \o (IF sc.CountryCode # Nil
                THEN <<"&", "c", "o", "u", "n", "t", "r", "y", "_", "c", "o", "d", "e", "=">> \o sc.CountryCode ELSE <<>>)
            \o (IF sc.Timeout > 0
                THEN <<"&", "t", "i", "m", "e", "o", "u", "t", "=">> \o FormatInt(sc.Timeout) ELSE <<>>)

\* the environments a rewrite is asked in: no key, the key "none", the same
\* word capitalised, a short key, a key of plausible length; rendering unset,
\* on in two spellings, off; a country code or none
ScraperEnvironments ==
    [PROXY_URL : {Nil}, PROXY_TYPE : {Nil},
     SCRAPER_API_KEY : {Nil, <<"n", "o", "n", "e">>, <<"N", "o", "n", "e">>, <<"a", "b", "c", "1", "2", "3">>,
                        <<"0", "1", "2", "3", "4", "5", "6", "7", "8", "9", "a", "b", "c", "d", "e", "f">>},
     SCRAPER_RENDER_JS : {Nil, <<"t", "r", "u", "e">>, <<"T", "R", "U", "E">>, <<"f", "a", "l", "s", "e">>},
     SCRAPER_COUNTRY_CODE : {Nil, <<"u", "s">>},
     PROXY_ROTATION_ENABLED : {Nil}, PROXY_LIST_FILE : {""}]

\* target URLs: plain, with a query string, with a space, a plus and a
\* percent sign, and the empty string
TargetURLs ==
    {<<"h", "t", "t", "p", "s", ":", "/", "/", "e", "x", "a", "m", "p", "l", "e", ".", "c", "o", "m", "/">>,
     <<"h", "t", "t", "p", "s", ":", "/", "/", "w", "w", "w", ".", "e", "b", "a", "y", ".", "c", "o", "m", "/", "s", "c", "h", "?", "q", "=", "a", "&", "p", "=", "2">>,
     <<"h", "t", "t", "p", ":", "/", "/", "x", ".", "t", "e", "s", "t", "/", "a", " ", "b", "+", "c", "%", "2", "0", "~", "d">>,
     <<>>}

InitScraper ==
    /\ env \in ScraperEnvironments
    /\ InitMain(<<>>, BatchPages)
    /\ IdlePool
    /\ IdleIdentity
    /\ IdleLibrary

\* config := NewScraperAPIConfig(); config.GetScraperURL(targetURL)
CallGetScraperURL(targetURL) ==
    /\ LET sc == NewScraperAPIConfig(env)
       IN  call' = [op |-> "GetScraperURL", arg |-> targetURL, sc |-> sc,
                    ret |-> GetScraperURL(sc, targetURL)]
    /\ UNCHANGED <<identity, mainVars, poolVars, workers, libVars>>

NextScraper == \E targetURL \in TargetURLs : CallGetScraperURL(targetURL)

SpecScraper == InitScraper /\ [][NextScraper]_vars

-----------------------------------------------------------------------------
(* BehaviorSimulator: behavior.go *)

\* time.Duration values are counted in microseconds (the nanosecond counts of
\* the code exceed the integers of the checker); a draw of rand.Intn over a
\* duration is a draw over its microseconds
Millisecond == 1000

\* NewBehaviorSimulator
NewBehaviorSimulator == [MinDelay |-> 500 * Millisecond, MaxDelay |-> 3000 * Millisecond]

\* the simulators primitives are called on: the constructor's, one whose
\* exported bounds were set to a narrow window, and one whose bounds were set
\* equal, for which rand.Intn(0) panics
Simulators ==
    {NewBehaviorSimulator,
     [MinDelay |-> 0, MaxDelay |-> 2],
     [MinDelay |-> 1000 * Millisecond, MaxDelay |-> 1000 * Millisecond]}

\* the values of rand.Intn(n) the model draws: the least, the greatest and one
\* between them
IntnSamples(n) == {0, n \div 2, n - 1}

\* the error chromedp's Evaluate(...).Do(ctx) returns when it fails
EvaluateError == "context deadline exceeded"

TimeoutError == "timeout waiting for content"

ScrollCountFromZero(r) == r

\* scrollCount := rand.Intn(3) + 1
ScrollCount(r) == r + 1

\* moveCount := rand.Intn(3) + 1
MoveCount(r) == r + 1

\* scrollDistance := rand.Intn(500) + 200
ScrollDistance(r) == r + 200

\* BehaviorSimulator.RandomDelay, r the value rand.Intn(int(MaxDelay-MinDelay)) drew
RandomDelay(bs, r) == r + bs.MinDelay

ContentReadyWithoutLength(e, contentLength, minContentLength) == e = NoError

\* WaitForContent: err == nil && contentLength >= minContentLength
ContentReady(e, contentLength, minContentLength) ==
    e = NoError /\ contentLength >= minContentLength

\* WaitForContent: time.Since(startTime) > maxWaitTime
TimedOut(elapsed, maxWaitTime) == elapsed > maxWaitTime

\* the simulator at rest, and the locals of a primitive at its entry
SimAtRest(bs) ==
    [bs |-> bs, op |-> "none", caller |-> "none", pc |-> "idle",
     count |-> 0, i |-> 0, acts |-> <<>>, ret |-> NoError,
     minContentLength |-> 0, maxWaitTime |-> 0, elapsed |-> 0,
     contentLength |-> 0, pollErr |-> NoError, polls |-> 0]

\* arguments WaitForContent is called with
MinContentLengths == {0, MinContentLength}

MaxWaitTimes == {0, 1000 * Millisecond, 1200 * Millisecond}

\* what one poll of document.body.innerHTML.length can report
PolledLengths == {0, MinContentLength - 1, MinContentLength, MinContentLength + 1}

\* how long one Evaluate can take
EvaluateTimes == {0, 300 * Millisecond}

InitBehavior ==
    /\ env = [PROXY_URL |-> Nil, PROXY_TYPE |-> Nil, SCRAPER_API_KEY |-> Nil,
       SCRAPER_RENDER_JS |-> Nil, SCRAPER_COUNTRY_CODE |-> Nil,
       PROXY_ROTATION_ENABLED |-> Nil, PROXY_LIST_FILE |-> ""]
    /\ InitMain(<<>>, BatchPages)
    /\ IdlePool
    /\ IdleIdentity
    /\ IdleProxy
    /\ IdleCookies
    /\ sim \in {SimAtRest(bs) : bs \in Simulators}

SimCallable == sim.pc \in {"idle", "returned"}

\* SimulateScrolling: entry, scrollCount drawn
CallSimulateScrolling(caller) ==
    /\ SimCallable
    /\ \E r \in 0..2 :
          sim' = [SimAtRest(sim.bs) EXCEPT !.op = "SimulateScrolling", !.caller = caller,
                                           !.pc = "loop", !.count = ScrollCount(r)]
    /\ UNCHANGED <<mainVars, poolVars, workers, identVars, proxyVars, cookieVars>>

\* SimulateMouseMovement: entry, moveCount drawn
CallSimulateMouseMovement(caller) ==
    /\ SimCallable
    /\ \E r \in 0..2 :
          sim' = [SimAtRest(sim.bs) EXCEPT !.op = "SimulateMouseMovement", !.caller = caller,
                                           !.pc = "loop", !.count = MoveCount(r)]
    /\ UNCHANGED <<mainVars, poolVars, workers, identVars, proxyVars, cookieVars>>

\* the value the iteration hands to the page: the scroll distance, or the
\* pointer position
DrawnAmounts(op) ==
    IF op = "SimulateScrolling"
    THEN {ScrollDistance(r) : r \in IntnSamples(500)}
    ELSE {<<x, y>> : x \in {0, 1919}, y \in {0, 1079}}

\* one iteration of the loop of SimulateScrolling or SimulateMouseMovement:
\* the script is evaluated; a failure returns the error at once; after a
\* success the primitive sleeps for RandomDelay()
PrimitiveIteration ==
    /\ sim.pc = "loop"
    /\ sim.i < sim.count
    /\ \E amount \in DrawnAmounts(sim.op), e \in {NoError, EvaluateError} :
          IF e # NoError
          THEN sim' = [sim EXCEPT !.ret = e, !.pc = "returned"]
          ELSE IF sim.bs.MaxDelay - sim.bs.MinDelay <= 0
               THEN sim' = [sim EXCEPT !.pc = "panicked",
                                       !.acts = Append(@, [amount |-> amount, delay |-> -1])]
               ELSE \E r \in IntnSamples(sim.bs.MaxDelay - sim.bs.MinDelay) :
                       sim' = [sim EXCEPT !.i = @ + 1,
                                          !.acts = Append(@, [amount |-> amount,
                                                              delay |-> RandomDelay(sim.bs, r)])]
    /\ UNCHANGED <<mainVars, poolVars, workers, identVars, proxyVars, cookieVars>>

\* the loop is over: return nil
PrimitiveReturn ==
    /\ sim.pc = "loop"
    /\ sim.i >= sim.count
    /\ sim' = [sim EXCEPT !.ret = NoError, !.pc = "returned"]
    /\ UNCHANGED <<mainVars, poolVars, workers, identVars, proxyVars, cookieVars>>

\* SimulateUserInteraction, interactionType 2: sleep for RandomDelay(), return nil
ReadingPause ==
    /\ SimCallable
    /\ IF sim.bs.MaxDelay - sim.bs.MinDelay <= 0
       THEN sim' = [SimAtRest(sim.bs) EXCEPT !.op = "SimulateUserInteraction",
                                             !.caller = "SimulateUserInteraction",
                                             !.pc = "panicked"]
       ELSE \E r \in IntnSamples(sim.bs.MaxDelay - sim.bs.MinDelay) :
               sim' = [SimAtRest(sim.bs) EXCEPT !.op = "SimulateUserInteraction",
                                                !.caller = "SimulateUserInteraction",
                                                !.pc = "returned",
                                                !.elapsed = RandomDelay(sim.bs, r)]
    /\ UNCHANGED <<mainVars, poolVars, workers, identVars, proxyVars, cookieVars>>

\* SimulateUserInteraction: the drawn interaction type selects the primitive,
\* whose return value is returned as it is
CallSimulateUserInteraction ==
    \/ CallSimulateScrolling("SimulateUserInteraction")
    \/ CallSimulateMouseMovement("SimulateUserInteraction")
    \/ ReadingPause

\* WaitForContent: entry
CallWaitForContent(minContentLength, maxWaitTime) ==
    /\ SimCallable
    /\ sim' = [SimAtRest(sim.bs) EXCEPT !.op = "WaitForContent", !.caller = "direct",
                                        !.pc = "poll",
                                        !.minContentLength = minContentLength,
                                        !.maxWaitTime = maxWaitTime]
    /\ UNCHANGED <<mainVars, poolVars, workers, identVars, proxyVars, cookieVars>>

\* WaitForContent: one iteration of the loop: the poll, the two tests, and
\* the 500 ms sleep when neither returns
WaitIteration ==
    /\ sim.pc = "poll"
    /\ \E e \in {NoError, EvaluateError}, n \in PolledLengths, t \in EvaluateTimes :
          LET contentLength == IF e = NoError THEN n ELSE 0
              elapsed == sim.elapsed + t
              polled == [sim EXCEPT !.contentLength = contentLength, !.pollErr = e,
                                    !.polls = @ + 1, !.elapsed = elapsed]
          IN  IF ContentReady(e, contentLength, sim.minContentLength)
              THEN sim' = [polled EXCEPT !.ret = NoError, !.pc = "returned"]
              ELSE IF TimedOut(elapsed, sim.maxWaitTime)
                   THEN sim' = [polled EXCEPT !.ret = TimeoutError, !.pc = "returned"]
                   ELSE sim' = [polled EXCEPT !.elapsed = elapsed + 500 * Millisecond]
    /\ UNCHANGED <<mainVars, poolVars, workers, identVars, proxyVars, cookieVars>>

NextBehavior ==
    \/ CallSimulateScrolling("direct")
    \/ CallSimulateMouseMovement("direct")
    \/ CallSimulateUserInteraction
    \/ PrimitiveIteration
    \/ PrimitiveReturn
    \/ \E minContentLength \in MinContentLengths, maxWaitTime \in MaxWaitTimes :
          CallWaitForContent(minContentLength, maxWaitTime)
    \/ WaitIteration

SpecBehavior == InitBehavior /\ [][NextBehavior]_vars

\* the goroutine that called a primitive keeps running, and every Evaluate
\* returns, with a value or with an error
SpecBehaviorFair == InitBehavior /\ [][NextBehavior]_vars /\ WF_vars(PrimitiveIteration \/ PrimitiveReturn \/ WaitIteration)

-----------------------------------------------------------------------------
(* ProxyConfig: config.go, one caller *)

\* sync.RWMutex: the goroutine holding the write lock (0: none) and the
\* goroutines holding a read lock
Unlocked == [writer |-> 0, readers |-> {}]

\* proxy URLs: unset, the two words that disable, the three accepted schemes,
\* a scheme that is none of them, no scheme
ProxyURLs ==
    {Nil, <<"n", "o", "n", "e">>, <<"d", "i", "s", "a", "b", "l", "e", "d">>,
     <<"h", "t", "t", "p", ":", "/", "/", "p", "r", "o", "x", "y", ":", "8", "0", "8", "0">>,
     <<"h", "t", "t", "p", "s", ":", "/", "/", "p", "r", "o", "x", "y", ":", "8", "4", "4", "3">>,
     <<"s", "o", "c", "k", "s", "5", ":", "/", "/", "p", "r", "o", "x", "y", ":", "1", "0", "8", "0">>,
     <<"f", "t", "p", ":", "/", "/", "p", "r", "o", "x", "y", ":", "2", "1">>,
     <<"p", "r", "o", "x", "y", ":", "8", "0", "8", "0">>}

ProxyEnvironments ==
    [PROXY_URL : ProxyURLs,
     PROXY_TYPE : {Nil, <<"h", "t", "t", "p">>, <<"f", "t", "p">>},
     SCRAPER_API_KEY : {Nil}, SCRAPER_RENDER_JS : {Nil}, SCRAPER_COUNTRY_CODE : {Nil},
     PROXY_ROTATION_ENABLED : {Nil}, PROXY_LIST_FILE : {""}]

\* config := NewProxyConfig()
InitProxy ==
    /\ env \in ProxyEnvironments
    /\ InitMain(<<>>, BatchPages)
    /\ IdlePool
    /\ IdleIdentity
    /\ IdleCookies
    /\ IdleSimulator
    /\ proxyConfig = NewProxyConfig(env)
    /\ mu = Unlocked

CallValidateConfiguration ==
    /\ call' = [op |-> "ValidateConfiguration", arg |-> Nil,
                ret |-> ProxyValidateConfiguration(proxyConfig)]
    /\ UNCHANGED <<proxyVars, identity, mainVars, poolVars, workers, cookieVars, sim>>

CallIsEnabled ==
    /\ call' = [op |-> "IsEnabled", arg |-> Nil, ret |-> ProxyIsEnabled(proxyConfig)]
    /\ UNCHANGED <<proxyVars, identity, mainVars, poolVars, workers, cookieVars, sim>>

\* ProxyConfig.SetProxyURL; Type keeps the value NewProxyConfig gave it
CallSetProxyURL(url) ==
    /\ proxyConfig' = [proxyConfig EXCEPT !.URL = url]
    /\ call' = [op |-> "SetProxyURL", arg |-> url, ret |-> Nil]
    /\ UNCHANGED <<mu, identity, mainVars, poolVars, workers, cookieVars, sim>>

NextProxy ==
    \/ CallValidateConfiguration
    \/ CallIsEnabled
    \/ \E url \in ProxyURLs : CallSetProxyURL(url)

SpecProxy == InitProxy /\ [][NextProxy]_vars

-----------------------------------------------------------------------------
(* AIAgent: cookies.  Go maps are references: an agent holds the address of *)
(* its Headers map and of its Cookies map, and heap maps addresses to maps  *)

NewMapAddressReused(h) == 1

\* make(map[string]string), or a map literal: an address no live map has
NewMapAddress(h) == CHOOSE a \in 1..(Cardinality(DOMAIN h) + 1) : a \notin DOMAIN h

\* the maps the garbage collector keeps: those some agent refers to
Reachable(h, agents) ==
    LET used == {agents[id].Headers : id \in DOMAIN agents}
                    \cup {agents[id].Cookies : id \in DOMAIN agents}
    IN  [a \in DOMAIN h \cap used |-> h[a]]

\* the agents of the fleet, and the profiles they are created with
FleetIDs == {"agent-1", "agent-2"}

FleetProfiles == {StealthProfiles[1], StealthProfiles[2]}

CookieNames == {"session", "lang"}

CookieValues == {"a1"}

InitCookies ==
    /\ env = [PROXY_URL |-> Nil, PROXY_TYPE |-> Nil, SCRAPER_API_KEY |-> Nil,
       SCRAPER_RENDER_JS |-> Nil, SCRAPER_COUNTRY_CODE |-> Nil,
       PROXY_ROTATION_ENABLED |-> Nil, PROXY_LIST_FILE |-> ""]
    /\ InitMain(<<>>, BatchPages)
    /\ IdlePool
    /\ IdleIdentity
    /\ IdleProxy
    /\ IdleSimulator
    /\ IdleCookies

\* NewAIAgent (the profile is the one GetRandomProfile drew) and
\* NewAIAgentWithProfile: the headers map and the cookies map are allocated
CreateAgent(op, id, profile) ==
    /\ LET headers == NewMapAddress(heap)
           h1 == [a \in DOMAIN heap \cup {headers} |->
                     IF a = headers THEN generateRealisticHeaders(profile) ELSE heap[a]]
           cookies == NewMapAddress(h1)
           h2 == [a \in DOMAIN h1 \cup {cookies} |-> IF a = cookies THEN EmptyMap ELSE h1[a]]
           agents == Store(fleet, [ID |-> id, Profile |-> profile.Name,
                                   Headers |-> headers, Cookies |-> cookies])
       IN  /\ fleet' = agents
           /\ heap' = Reachable(h2, agents)
    /\ call' = [op |-> op, id |-> id]
    /\ UNCHANGED <<identity, mainVars, poolVars, workers, proxyVars, sim>>

\* AIAgent.AddCookie: a.Cookies[name] = value
AddCookie(id, name, value) ==
    /\ id \in DOMAIN fleet
    /\ heap' = [heap EXCEPT ![fleet[id].Cookies] =
                   [k \in DOMAIN @ \cup {name} |-> IF k = name THEN value ELSE @[k]]]
    /\ call' = [op |-> "AddCookie", id |-> id]
    /\ UNCHANGED <<fleet, identity, mainVars, poolVars, workers, proxyVars, sim>>

\* AIAgent.RemoveCookie: delete(a.Cookies, name)
RemoveCookie(id, name) ==
    /\ id \in DOMAIN fleet
    /\ heap' = [heap EXCEPT ![fleet[id].Cookies] = [k \in DOMAIN @ \ {name} |-> @[k]]]
    /\ call' = [op |-> "RemoveCookie", id |-> id]
    /\ UNCHANGED <<fleet, identity, mainVars, poolVars, workers, proxyVars, sim>>

\* AIAgent.ClearCookies: a.Cookies = make(map[string]string)
ClearCookies(id) ==
    /\ id \in DOMAIN fleet
    /\ LET cookies == NewMapAddress(heap)
           h1 == [a \in DOMAIN heap \cup {cookies} |-> IF a = cookies THEN EmptyMap ELSE heap[a]]
           agents == [fleet EXCEPT ![id].Cookies = cookies]
       IN  /\ fleet' = agents
           /\ heap' = Reachable(h1, agents)
    /\ call' = [op |-> "ClearCookies", id |-> id]
    /\ UNCHANGED <<identity, mainVars, poolVars, workers, proxyVars, sim>>

NextCookies ==
    \/ \E id \in FleetIDs, profile \in FleetProfiles : CreateAgent("NewAIAgent", id, profile)
    \/ \E id \in FleetIDs, profile \in FleetProfiles : CreateAgent("NewAIAgentWithProfile", id, profile)
    \/ \E id \in FleetIDs, name \in CookieNames, value \in CookieValues : AddCookie(id, name, value)
    \/ \E id \in FleetIDs, name \in CookieNames : RemoveCookie(id, name)
    \/ \E id \in FleetIDs : ClearCookies(id)

SpecCookies == InitCookies /\ [][NextCookies]_vars

-----------------------------------------------------------------------------
(* ProxyConfig: rotation *)

\* longest rotation list the model builds
MaxProxies == 3

AdvanceNever(i, n) == i

\* (pc.CurrentIndex + 1) % len(pc.ProxyList)
Advance(i, n) == (i + 1) % n

\* ProxyConfig.GetNextProxy: the value returned and the configuration left
GetNextProxy(c) ==
    IF ~c.RotationEnabled \/ Len(c.ProxyList) = 0
    THEN [ret |-> c.URL, config |-> c]
    ELSE [ret |-> c.ProxyList[c.CurrentIndex + 1],
          config |-> [c EXCEPT !.CurrentIndex = Advance(c.CurrentIndex, Len(c.ProxyList))]]

\* ProxyConfig.AddProxyToList
AddProxyToList(c, proxy) == [c EXCEPT !.ProxyList = Append(@, proxy)]

\* strings.Split(s, "\n")
RECURSIVE SplitLines(_)
SplitLines(s) ==
    IF \E i \in 1..Len(s) : s[i] = "\n"
    THEN LET i == CHOOSE i \in 1..Len(s) : s[i] = "\n" /\ \A j \in 1..(i - 1) : s[j] # "\n"
         IN  <<SubSeq(s, 1, i - 1)>> \o SplitLines(SubSeq(s, i + 1, Len(s)))
    ELSE <<s>>

WhiteSpace == {" ", "\t", "\n", "\r"}

\* strings.TrimSpace
RECURSIVE TrimSpace(_)
TrimSpace(s) ==
    IF s = <<>> THEN s
    ELSE IF s[1] \in WhiteSpace THEN TrimSpace(SubSeq(s, 2, Len(s)))
    ELSE IF s[Len(s)] \in WhiteSpace THEN TrimSpace(SubSeq(s, 1, Len(s) - 1))
    ELSE s

\* the loop of LoadProxyList: the trimmed lines that are neither empty nor
\* comments, in file order
RECURSIVE ProxyLines(_)
ProxyLines(lines) ==
    IF lines = <<>> THEN <<>>
    ELSE LET line == TrimSpace(lines[1])
         IN  (IF line # Nil /\ ~HasPrefix(line, <<"#">>) THEN <<line>> ELSE <<>>)
                \o ProxyLines(Tail(lines))

\* the files os.ReadFile can read; every other path fails
Files == [path \in {"/app/proxies.txt"} |-> <<"#", " ", "p", "r", "o", "x", "i", "e", "s", "\n", " ", "a", ":", "1", " ", "\n", "\n", "b", ":", "2", "\n">>]

\* ProxyConfig.LoadProxyList: the error returned and the configuration left
LoadProxyList(c, filePath, e) ==
    LET path == IF filePath = "" THEN e.PROXY_LIST_FILE ELSE filePath
    IN  IF path = "" THEN [ret |-> "no proxy list file specified", config |-> c]
        ELSE IF path \notin DOMAIN Files
             THEN [ret |-> "failed to read proxy list", config |-> c]
             ELSE [ret |-> NoError,
                   config |-> [c EXCEPT !.ProxyList = @ \o ProxyLines(SplitLines(Files[path]))]]

RotationEnvironments ==
    [PROXY_URL : {<<"h", "t", "t", "p", ":", "/", "/", "p", "r", "o", "x", "y", ":", "8", "0", "8", "0">>}, PROXY_TYPE : {Nil},
     SCRAPER_API_KEY : {Nil}, SCRAPER_RENDER_JS : {Nil}, SCRAPER_COUNTRY_CODE : {Nil},
     PROXY_ROTATION_ENABLED : {Nil, <<"t", "r", "u", "e">>, <<"T", "r", "u", "e">>},
     PROXY_LIST_FILE : {"", "/app/proxies.txt"}]

\* proxies handed to AddProxyToList
ListedProxies == {<<"a", ":", "1">>, <<"c", ":", "3">>}

\* paths handed to LoadProxyList
ListPaths == {"", "/app/proxies.txt", "/missing"}

InitRotation ==
    /\ env \in RotationEnvironments
    /\ InitMain(<<>>, BatchPages)
    /\ IdlePool
    /\ IdleIdentity
    /\ IdleCookies
    /\ IdleSimulator
    /\ proxyConfig = NewProxyConfig(env)
    /\ mu = Unlocked

\* the returns of the GetNextProxy calls made since the last call of another
\* method, the oldest beyond MaxProxies dropped
Recent == IF call.op = "GetNextProxy" THEN call.recent ELSE <<>>

CallGetNextProxy ==
    /\ LET r == GetNextProxy(proxyConfig)
           all == Append(Recent, r.ret)
       IN  /\ proxyConfig' = r.config
           /\ call' = [op |-> "GetNextProxy", arg |-> Nil, ret |-> r.ret,
                       recent |-> IF Len(all) > MaxProxies THEN Tail(all) ELSE all]
    /\ UNCHANGED <<mu, identity, mainVars, poolVars, workers, cookieVars, sim>>

CallAddProxyToList(proxy) ==
    /\ Len(proxyConfig.ProxyList) < MaxProxies
    /\ proxyConfig' = AddProxyToList(proxyConfig, proxy)
    /\ call' = [op |-> "AddProxyToList", arg |-> proxy, ret |-> Nil]
    /\ UNCHANGED <<mu, identity, mainVars, poolVars, workers, cookieVars, sim>>

CallLoadProxyList(filePath) ==
    /\ LET r == LoadProxyList(proxyConfig, filePath, env)
       IN  /\ Len(r.config.ProxyList) <= MaxProxies
           /\ proxyConfig' = r.config
           /\ call' = [op |-> "LoadProxyList", arg |-> filePath, ret |-> r.ret]
    /\ UNCHANGED <<mu, identity, mainVars, poolVars, workers, cookieVars, sim>>

NextRotation ==
    \/ CallGetNextProxy
    \/ \E proxy \in ListedProxies : CallAddProxyToList(proxy)
    \/ \E filePath \in ListPaths : CallLoadProxyList(filePath)

SpecRotation == InitRotation /\ [][NextRotation]_vars

-----------------------------------------------------------------------------
(* ProxyConfig shared by goroutines: each goroutine runs one method, a step *)
(* at a time; mu is taken and released where the code takes and releases it *)

\* the steps of each method, in order.  IsEnabled and GetChromeLaunchArg take
\* no lock; GetNextProxy tests RotationEnabled and len(ProxyList), and returns
\* URL, before it takes the lock
Program(method) ==
    CASE method = "SetProxyURL" -> <<"Lock", "WriteURL", "Unlock">>
      [] method = "AddProxyToList" -> <<"Lock", "AppendProxy", "Unlock">>
      [] method = "LoadProxyList" -> <<"ReadFile", "Lock", "AppendLines", "Unlock">>
      [] method = "IsEnabled" -> <<"ReadURL">>
      [] method = "GetChromeLaunchArg" -> <<"ReadURL", "FormatURL">>
      [] method = "GetNextProxy" -> <<"CheckRotation", "Lock", "Rotate", "Unlock">>

\* the fields of the object a step reads or writes
Touches(instr) ==
    CASE instr = "WriteURL" -> {"URL"}
      [] instr = "ReadURL" -> {"URL"}
      [] instr = "FormatURL" -> {"URL"}
      [] instr = "AppendProxy" -> {"ProxyList"}
      [] instr = "AppendLines" -> {"ProxyList"}
      [] instr = "CheckRotation" -> {"ProxyList", "URL"}
      [] instr = "Rotate" -> {"ProxyList", "CurrentIndex"}
      [] OTHER -> {}

\* the calls the goroutines make
ProxyCalls ==
    {[method |-> "SetProxyURL", arg |-> <<"s", "o", "c", "k", "s", "5", ":", "/", "/", "b", ":", "2">>, path |-> ""],
     [method |-> "SetProxyURL", arg |-> Nil, path |-> ""],
     [method |-> "AddProxyToList", arg |-> <<"c", ":", "3">>, path |-> ""],
     [method |-> "LoadProxyList", arg |-> Nil, path |-> "/app/proxies.txt"],
     [method |-> "IsEnabled", arg |-> Nil, path |-> ""],
     [method |-> "GetChromeLaunchArg", arg |-> Nil, path |-> ""],
     [method |-> "GetNextProxy", arg |-> Nil, path |-> ""]}

NoAccess == [fields |-> {}, locked |-> FALSE]

\* a goroutine at the entry of its call
Entering(c) == [method |-> c.method, arg |-> c.arg, path |-> c.path, i |-> 1, ret |-> Nil, access |-> NoAccess]

\* a string read while another goroutine writes it under the lock: the old
\* value, the value being written, or a mix of pointer and length
TornString == <<"?">>

\* the values a read of URL by goroutine w can see
VisibleURLs(w) ==
    IF mu.writer \notin {0, w} /\ workers[mu.writer].method = "SetProxyURL"
    THEN {proxyConfig.URL, workers[mu.writer].arg, TornString}
    ELSE {proxyConfig.URL}

InitProxyConcurrent ==
    /\ env \in [PROXY_URL : {<<"h", "t", "t", "p", ":", "/", "/", "p", "r", "o", "x", "y", ":", "8", "0", "8", "0">>}, PROXY_TYPE : {Nil},
                SCRAPER_API_KEY : {Nil}, SCRAPER_RENDER_JS : {Nil}, SCRAPER_COUNTRY_CODE : {Nil},
                PROXY_ROTATION_ENABLED : {Nil, <<"t", "r", "u", "e">>},
                PROXY_LIST_FILE : {""}]
    /\ InitMain(<<>>, BatchPages)
    /\ Agents = <<>>
    /\ MaxAgents = 0
    /\ lastCall = NoPool
    /\ IdleIdentity
    /\ IdleCookies
    /\ IdleSimulator
    /\ proxyConfig \in {NewProxyConfig(env),
                        AddProxyToList(NewProxyConfig(env), <<"a", ":", "1">>)}
    /\ mu = Unlocked
    /\ workers \in [Workers -> {Entering(c) : c \in ProxyCalls}]

Instr(w) ==
    IF workers[w].i <= Len(Program(workers[w].method))
    THEN Program(workers[w].method)[workers[w].i]
    ELSE "done"

\* pc.mu.Lock(): blocks while another goroutine holds the lock
ThreadLock(w) ==
    /\ Instr(w) = "Lock"
    /\ mu.writer = 0 /\ mu.readers = {}
    /\ mu' = [mu EXCEPT !.writer = w]
    /\ workers' = [workers EXCEPT ![w].i = @ + 1, ![w].access = NoAccess]
    /\ UNCHANGED <<proxyConfig, mainVars, poolVars, identVars, cookieVars, sim>>

\* the deferred pc.mu.Unlock()
ThreadUnlock(w) ==
    /\ Instr(w) = "Unlock"
    /\ mu' = [mu EXCEPT !.writer = 0]
    /\ workers' = [workers EXCEPT ![w].i = @ + 1, ![w].access = NoAccess]
    /\ UNCHANGED <<proxyConfig, mainVars, poolVars, identVars, cookieVars, sim>>

\* os.ReadFile in LoadProxyList, before the lock is taken
ThreadReadFile(w) ==
    /\ Instr(w) = "ReadFile"
    /\ workers' = [workers EXCEPT ![w].i = @ + 1, ![w].access = NoAccess]
    /\ UNCHANGED <<proxyVars, mainVars, poolVars, identVars, cookieVars, sim>>

\* a step that reads or writes fields of the object; access records which
\* fields, and whether the goroutine held mu
ThreadAccess(w) ==
    LET instr == Instr(w)
        me == workers[w]
        access == [fields |-> Touches(instr), locked |-> mu.writer = w]
        next(i, ret) == [workers EXCEPT ![w].i = i, ![w].ret = ret, ![w].access = access]
    IN  /\ Touches(instr) # {}
        /\ CASE instr = "WriteURL" ->
                  /\ proxyConfig' = [proxyConfig EXCEPT !.URL = me.arg]
                  /\ workers' = next(me.i + 1, Nil)
             [] instr = "AppendProxy" ->
                  /\ Len(proxyConfig.ProxyList) < MaxProxies
                  /\ proxyConfig' = AddProxyToList(proxyConfig, me.arg)
                  /\ workers' = next(me.i + 1, Nil)
             [] instr = "AppendLines" ->
                  /\ Len(LoadProxyList(proxyConfig, me.path, env).config.ProxyList) <= MaxProxies
                  /\ proxyConfig' = LoadProxyList(proxyConfig, me.path, env).config
                  /\ workers' = next(me.i + 1, Nil)
             [] instr = "ReadURL" ->
                  /\ \E url \in VisibleURLs(w) :
                        LET enabled == ProxyIsEnabled([URL |-> url])
                        IN  workers' = next(IF me.method = "GetChromeLaunchArg" /\ enabled
                                            THEN me.i + 1 ELSE Len(Program(me.method)) + 1,
                                            <<enabled>>)
                  /\ UNCHANGED proxyConfig
             [] instr = "FormatURL" ->
                  /\ \E url \in VisibleURLs(w) : workers' = next(me.i + 1, url)
                  /\ UNCHANGED proxyConfig
             [] instr = "CheckRotation" ->
                  /\ IF ~proxyConfig.RotationEnabled \/ Len(proxyConfig.ProxyList) = 0
                     THEN \E url \in VisibleURLs(w) :
                             workers' = next(Len(Program(me.method)) + 1, url)
                     ELSE workers' = next(me.i + 1, Nil)
                  /\ UNCHANGED proxyConfig
             [] instr = "Rotate" ->
                  /\ proxyConfig' = GetNextProxy(proxyConfig).config
                  /\ workers' = next(me.i + 1, GetNextProxy(proxyConfig).ret)
        /\ UNCHANGED <<mu, mainVars, poolVars, identVars, cookieVars, sim>>

NextProxyConcurrent ==
    \/ \E w \in Workers : ThreadLock(w)
    \/ \E w \in Workers : ThreadUnlock(w)
    \/ \E w \in Workers : ThreadReadFile(w)
    \/ \E w \in Workers : ThreadAccess(w)

SpecProxyConcurrent == InitProxyConcurrent /\ [][NextProxyConcurrent]_vars

-----------------------------------------------------------------------------
(* Vocabulary of the properties *)

\* the upper-case and lower-case forms of one letter, both ways round
CasePairs ==
    {<<UpperCase[k], LowerCase[k]>> : k \in 1..Len(UpperCase)} \cup {<<LowerCase[k], UpperCase[k]>> : k \in 1..Len(UpperCase)}

\* two characters are the same letter, whatever their case
SameLetter(a, b) == a = b \/ <<a, b>> \in CasePairs

\* the text holds a challenge signature written in any letter case
HoldsSignatureAnyCase(text) ==
    \E k \in 1..Len(cfIndicators) :
       \E i \in 0..(Len(text) - Len(cfIndicators[k])) :
          \A j \in 1..Len(cfIndicators[k]) : SameLetter(text[i + j], cfIndicators[k][j])

\* TestURL has returned at least once and main holds its result
Returned == pc \in {"loop", "done"} /\ results # <<>>

\* the result of the last TestURL call, and the document its site serves
LastResult == results[Len(results)]

LastPage == web[Len(results)]

\* the last TestURL call finished chromedp.Run without a transport error
CompletedClean == Returned /\ err = Nil

\* phase of a command: 1 patch installation, 2 navigation, 3 observable read
Phase(a) ==
    IF a = "AddScriptToEvaluateOnNewDocument" THEN 1
    ELSE IF a = "Navigate" THEN 2
    ELSE 3

-----------------------------------------------------------------------------
(* Properties *)

\* C1: within one TestURL call the commands reach the browser in phase order:
\* the stealth script is registered before the navigation, the navigation
\* before every read of title, body or screenshot; a read, and any observable
\* held by TestURL, is preceded by a registration and a navigation.
C1_PatchNavigateObserve ==
    /\ \A i, j \in 1..Len(sent) : Phase(sent[i]) < Phase(sent[j]) => i < j
    /\ \A i \in 1..Len(sent) :
          Phase(sent[i]) = 3 =>
             /\ \E j \in 1..(i - 1) : Phase(sent[j]) = 2
             /\ \E j \in 1..(i - 1) : Phase(sent[j]) = 1
    /\ \A i \in 1..Len(sent) :
          Phase(sent[i]) = 2 => \E j \in 1..(i - 1) : Phase(sent[j]) = 1
    /\ (pc \in {"run", "ret"} /\ (title # Nil \/ bodyHTML # Nil \/ buf # "empty")) =>
          /\ \E j \in 1..Len(sent) : Phase(sent[j]) = 1
          /\ \E j \in 1..Len(sent) : Phase(sent[j]) = 2

\* a TestURL call that went through all three phases
C1_Witness ==
    /\ pc = "ret"
    /\ err = Nil
    /\ sent = <<"AddScriptToEvaluateOnNewDocument", "Navigate", "Title", "Evaluate", "FullScreenshot">>
    /\ buf = "png"

\* C2: a navigation that completed without transport error on a body holding
\* a challenge signature in any letter case returns HasCloudflare = TRUE and
\* Success = FALSE, whatever the title and the body length.
C2_SignatureInBodyBlocks ==
    (CompletedClean /\ HoldsSignatureAnyCase(LastPage.body)) =>
        (LastResult.HasCloudflare /\ ~LastResult.Success)

\* an upper-case signature in a body longer than the threshold, under a title
C2_Witness ==
    /\ CompletedClean
    /\ Contains(LastPage.body, CheckingUpper)
    /\ Len(LastPage.body) > MinContentLength
    /\ LastPage.title = ExampleTitle
    /\ LastResult.HasCloudflare
    /\ ~LastResult.Success

\* C3: a page whose title holds a challenge signature while its body holds
\* none is classified HasCloudflare = TRUE and Success = FALSE.
C3_SignatureInTitleBlocks ==
    (CompletedClean /\ HoldsSignatureAnyCase(LastPage.title) /\ ~HoldsSignatureAnyCase(LastPage.body)) =>
        (LastResult.HasCloudflare /\ ~LastResult.Success)

\* C4: with no challenge signature on the page, Success holds exactly when the
\* title is non-empty and the body is longer than 500; an empty title never
\* gives Success.
C4_SuccessRule ==
    /\ (CompletedClean /\ ~HoldsSignatureAnyCase(LastPage.body) /\ ~HoldsSignatureAnyCase(LastPage.title)) =>
          (LastResult.Success <=> (LastPage.title # Nil /\ Len(LastPage.body) > 500))
    /\ (Returned /\ LastResult.Title = Nil) => ~LastResult.Success

\* a 1000-character body with a title and no signature: Success
C4_Witness ==
    /\ CompletedClean
    /\ Len(LastPage.body) = 1000
    /\ LastPage.title = ExampleTitle
    /\ ~HoldsSignatureAnyCase(LastPage.body)
    /\ LastResult.Success

\* C5: a body with no challenge signature and of length at most 500 gives the
\* indeterminate state: Success = FALSE, HasCloudflare = FALSE, no error.
C5_Indeterminate ==
    (CompletedClean /\ ~HoldsSignatureAnyCase(LastPage.body) /\ Len(LastPage.body) <= 500) =>
        /\ ~LastResult.Success
        /\ ~LastResult.HasCloudflare
        /\ LastResult.ErrorMessage = Nil

\* the 28-character body <html><body>OK</body></html> under the title Example
C5_Witness ==
    /\ CompletedClean
    /\ LastPage.body = OKBody
    /\ Len(LastPage.body) = 28
    /\ LastPage.title = ExampleTitle
    /\ LastResult.ContentLength = 28
    /\ ~LastResult.Success
    /\ ~LastResult.HasCloudflare
    /\ LastResult.ErrorMessage = Nil

\* C6: the counts reported for a result sequence sum to its length, every
\* outcome being counted in exactly one of them.
C6_CountsSumToLength ==
    pc = "done" => counts.successCount + counts.blockCount + counts.errorCount = Len(results)

\* the result sequence read in the order p
Permuted(rs, p) == [i \in 1..Len(rs) |-> rs[p[i]]]

\* C7: the counts of the summary are those of every permutation of the result
\* sequence.
C7_OrderIndependent ==
    pc = "done" =>
        \A p \in Permutations(1..Len(results)) : Aggregate(Permuted(results, p)) = counts

\* a summary over an errored result followed by a successful one
C7_Witness ==
    /\ pc = "done"
    /\ Len(results) >= 2
    /\ results[1].ErrorMessage # Nil
    /\ results[2].Success
    /\ counts.errorCount >= 1
    /\ counts.successCount >= 1

\* C8: the batch appends one result per URL in input order; when the loop has
\* ended there are as many results as URLs, whichever navigations failed.
C8_OneResultPerURL ==
    /\ Len(results) <= Len(testURLs)
    /\ \A i \in 1..Len(results) : results[i].URL = testURLs[i]
    /\ pc = "loop" => Len(results) = idx - 1
    /\ pc = "done" => Len(results) = Len(testURLs)

\* a finished batch whose first navigation failed and whose later one ran
C8_Witness ==
    /\ pc = "done"
    /\ Len(testURLs) >= 2
    /\ results[1].ErrorMessage # Nil
    /\ Len(results) = Len(testURLs)
    /\ results[Len(results)].ErrorMessage = Nil

\* C9: no navigation is started while the configuration of the environment is
\* invalid.
C9_NoNavigationOnInvalidConfiguration ==
    pc \in {"run", "ret"} => ConfigurationValid(env)

\* C10: AddAgent on a pool holding MaxAgents identities returns the pool-full
\* error and leaves the stored identities, and so the size, as they were.
C10_FullPoolRejects ==
    [][(lastCall'.op = "AddAgent" /\ GetPoolSize = MaxAgents) =>
          (lastCall'.err = PoolFull /\ Agents' = Agents)]_vars

\* a rejected AddAgent on a pool filled to a ceiling of at least one
C10_Witness ==
    /\ lastCall.op = "AddAgent"
    /\ lastCall.err = PoolFull
    /\ MaxAgents >= 1
    /\ GetPoolSize = MaxAgents
    /\ lastCall.id \notin DOMAIN Agents

\* C11: a pool created with a ceiling n >= 0 never holds more than n
\* identities, and an AddAgent call, accepted or rejected, leaves every
\* identity stored under another ID in place.
C11_CeilingNoEviction ==
    /\ [](MaxAgents >= 0 => GetPoolSize <= MaxAgents)
    /\ [][lastCall'.op = "AddAgent" =>
             \A id \in DOMAIN Agents :
                id # lastCall'.id => (id \in DOMAIN Agents' /\ Agents'[id] = Agents[id])]_vars

\* an accepted AddAgent that filled a pool of ceiling two or more
C11_Witness ==
    /\ lastCall.op = "AddAgent"
    /\ lastCall.err = NoError
    /\ MaxAgents >= 2
    /\ GetPoolSize = MaxAgents
    /\ lastCall.id \in DOMAIN Agents

\* C12: whatever the interleaving of concurrent AddAgent calls, the pool
\* holds at most MaxAgents identities.
C12_CeilingUnderConcurrency ==
    GetPoolSize <= MaxAgents

\* the profiles of the catalog, as a set
Catalog == {StealthProfiles[i] : i \in 1..Len(StealthProfiles)}

\* the catalog indexes whose profile carries the tag, in increasing order
RECURSIVE IndexesOf(_, _)
IndexesOf(tag, n) ==
    IF n = 0 THEN <<>>
    ELSE IF StealthProfiles[n].Platform = tag
         THEN Append(IndexesOf(tag, n - 1), n)
         ELSE IndexesOf(tag, n - 1)

\* C13: GetProfileByName returns a catalog profile whose name equals the
\* requested name whenever the catalog holds one; for every other name, the
\* empty string included, it returns the first catalog entry.
C13_LookupByName ==
    call.op = "GetProfileByName" =>
        IF \E p \in Catalog : p.Name = call.arg
        THEN call.ret \in Catalog /\ call.ret.Name = call.arg
        ELSE call.ret = StealthProfiles[1]

C13_Witness ==
    /\ call.op = "GetProfileByName"
    /\ call.arg = ""
    /\ call.ret.Name = "Windows Chrome 120"

\* C14: GetProfilesByPlatform partitions the catalog: for a tag some profile
\* declares, the result is not empty and holds exactly the profiles of that
\* tag in catalog order; every catalog profile is in the result of exactly one
\* declared tag; a tag no profile declares gives the empty result.
C14_PlatformPartition ==
    call.op = "GetProfilesByPlatform" =>
        LET ix == IndexesOf(call.arg, Len(StealthProfiles))
            declared == {p.Platform : p \in Catalog}
        IN  /\ call.ret = [j \in 1..Len(ix) |-> StealthProfiles[ix[j]]]
            /\ (call.arg \in declared) = (call.ret # <<>>)
            /\ call.arg \in declared =>
                  \A i \in 1..Len(StealthProfiles) :
                     (\E j \in 1..Len(call.ret) : call.ret[j] = StealthProfiles[i])
                        <=> (StealthProfiles[i].Platform = call.arg)

C14_Witness ==
    /\ call.op = "GetProfilesByPlatform"
    /\ call.arg = "MacIntel"
    /\ Len(call.ret) > 1

\* C15: the merged header set of HeadersWithDefaults maps every override key
\* to the override value and every other default key to the profile's default,
\* and holds no other key.
C15_OverrideWins ==
    call.op = "HeadersWithDefaults" =>
        LET defaults == generateRealisticHeaders(identity.Profile)
        IN  /\ DOMAIN call.ret = DOMAIN defaults \cup DOMAIN call.arg
            /\ \A k \in DOMAIN call.arg : call.ret[k] = call.arg[k]
            /\ \A k \in DOMAIN defaults \ DOMAIN call.arg : call.ret[k] = defaults[k]

C15_Witness ==
    /\ call.op = "HeadersWithDefaults"
    /\ "Accept-Language" \in DOMAIN call.arg
    /\ identity.Headers["Accept-Language"] = "en-US"
    /\ call.ret["Accept-Language"] = "fr-FR"
    /\ call.ret["User-Agent"] = identity.Profile.UserAgent

\* strconv.Atoi on the text of a non-negative number
RECURSIVE ParseNat(_)
ParseNat(s) ==
    IF s = <<>> THEN 0
    ELSE 10 * ParseNat(SubSeq(s, 1, Len(s) - 1))
            + (CHOOSE d \in 0..9 : Digits[d + 1] = s[Len(s)])

\* C17: for every catalog profile, the device-memory and
\* logical-processor-count values in the script built for the profile equal
\* the profile's DeviceMemory and HardwareConcurrency, as the screen width and
\* height and the max touch points equal the profile's.
C17_ScriptReportsHardware ==
    call.op = "BuildStealthScript" =>
        /\ ParseNat(call.ret.deviceMemory) = call.arg.DeviceMemory
        /\ ParseNat(call.ret.hardwareConcurrency) = call.arg.HardwareConcurrency
        /\ ParseNat(call.ret.width) = call.arg.ScreenWidth
        /\ ParseNat(call.ret.height) = call.arg.ScreenHeight
        /\ ParseNat(call.ret.maxTouchPoints) = call.arg.MaxTouchPoints

\* C18: a navigation that runs into its timeout eventually returns; on every
\* return of TestURL the timeout, allocator and browser contexts are all
\* cancelled, and the outcome of a failed navigation carries a non-empty
\* error description with Success false.
C18_TimeoutReleasesSession ==
    /\ [](pc \in {"loop", "done"} => live = {})
    /\ [](Returned /\ err # Nil => LastResult.ErrorMessage # Nil /\ ~LastResult.Success)
    /\ (pc = "run") ~> (pc \in {"loop", "done"})
    /\ (pc = "ret" /\ err = ErrDeadline)
          ~> (/\ Returned
              /\ live = {}
              /\ LastResult.ErrorMessage # Nil
              /\ ~LastResult.Success)

C18_Witness ==
    /\ Returned
    /\ err = ErrDeadline
    /\ live = {}
    /\ LastResult.ErrorMessage = ErrDeadline
    /\ ~LastResult.Success

Unhex(h) == (CHOOSE i \in 1..Len(HexDigits) : HexDigits[i] = h) - 1

\* url.QueryUnescape on a well-formed escaped text
RECURSIVE QueryUnescape(_)
QueryUnescape(s) ==
    IF s = <<>> THEN <<>>
    ELSE IF s[1] = "%"
         THEN <<Ascii[16 * Unhex(s[2]) + Unhex(s[3]) - 31]>>
                 \o QueryUnescape(SubSeq(s, 4, Len(s)))
         ELSE <<IF s[1] = "+" THEN " " ELSE s[1]>>
                 \o QueryUnescape(SubSeq(s, 2, Len(s)))

\* the text of s up to its first "&", all of s when it has none
UpToAmpersand(s) ==
    IF \E i \in 1..Len(s) : s[i] = "&"
    THEN SubSeq(s, 1, (CHOOSE i \in 1..Len(s) : s[i] = "&" /\ \A j \in 1..(i - 1) : s[j] # "&") - 1)
    ELSE s

\* C20: GetScraperURL returns the target URL unchanged when no API key is set
\* or the key is "none"; otherwise it returns a URL that starts with the API
\* endpoint and the key and whose url parameter is the escaped target URL:
\* free of "&", and unescaping to the target.
C20_RewriteIdentityWhenDisabled ==
    call.op = "GetScraperURL" =>
        IF env.SCRAPER_API_KEY = Nil \/ env.SCRAPER_API_KEY = <<"n", "o", "n", "e">>
        THEN call.ret = call.arg
        ELSE LET head == ScraperBase \o env.SCRAPER_API_KEY \o <<"&", "u", "r", "l", "=">>
             IN  /\ HasPrefix(call.ret, head)
                 /\ LET param == UpToAmpersand(SubSeq(call.ret, Len(head) + 1, Len(call.ret)))
                    IN  /\ \A i \in 1..Len(param) : param[i] \notin {" ", "/", ":", "?", "="}
                        /\ QueryUnescape(param) = call.arg

C20_Witness ==
    /\ call.op = "GetScraperURL"
    /\ call.sc.Enabled
    /\ Contains(call.arg, <<"&">>)
    /\ Contains(call.ret, <<"%", "2", "6">>)
    /\ call.ret # call.arg

\* the primitive under way or just returned is op, called directly or not
Returning(op) == sim.op = op /\ sim.pc = "returned" /\ sim.ret = NoError

\* C25: a scroll primitive that returns without failure has performed between
\* 1 and 3 scroll actions, each of 200 to 700 pixels; a pointer-move primitive
\* that returns without failure has dispatched between 1 and 3 events; every
\* delay slept between actions lies within [MinDelay, MaxDelay].
C25_BoundedActions ==
    /\ Returning("SimulateScrolling") =>
          /\ Len(sim.acts) \in 1..3
          /\ \A k \in 1..Len(sim.acts) : sim.acts[k].amount \in 200..700
    /\ Returning("SimulateMouseMovement") => Len(sim.acts) \in 1..3
    /\ sim.pc \in {"loop", "returned"} =>
          \A k \in 1..Len(sim.acts) :
             sim.bs.MinDelay <= sim.acts[k].delay /\ sim.acts[k].delay <= sim.bs.MaxDelay

C25_Witness ==
    /\ Returning("SimulateScrolling")
    /\ Len(sim.acts) = 3
    /\ sim.acts[1].amount = 200
    /\ sim.acts[3].amount = 699
    /\ sim.acts[2].delay = sim.bs.MaxDelay - 1
    /\ sim.bs = NewBehaviorSimulator

\* the scheme of a URL: the text before its first "://", Nil when it has none
SchemeOf(url) ==
    IF Contains(url, <<":", "/", "/">>)
    THEN SubSeq(url, 1,
            (CHOOSE i \in 1..Len(url) :
                /\ SubSeq(url, i, i + 2) = <<":", "/", "/">>
                /\ \A j \in 1..(i - 1) : SubSeq(url, j, j + 2) # <<":", "/", "/">>) - 1)
    ELSE Nil

\* C22: for a proxy configuration loaded from the environment,
\* ValidateConfiguration returns an error when the URL is enabled and its
\* scheme is not http, https or socks5, or it has no scheme; a disabled
\* proxy (empty URL, "none", "disabled") validates.
C22_InvalidSchemeRejected ==
    call.op = "ValidateConfiguration" /\ proxyConfig = NewProxyConfig(env) =>
        IF env.PROXY_URL \in {Nil, <<"n", "o", "n", "e">>, <<"d", "i", "s", "a", "b", "l", "e", "d">>}
        THEN call.ret = NoError
        ELSE SchemeOf(env.PROXY_URL) \notin validTypes => call.ret # NoError

\* the operating system a platform tag stands for
OSOfPlatform(platform) ==
    CASE platform = "Win32" -> "Windows"
      [] platform = "MacIntel" -> "macOS"
      [] platform = "Linux x86_64" -> "Linux"
      [] OTHER -> "unknown"

\* the operating system a Sec-Ch-Ua-Platform value names
OSOfHint(hint) ==
    CASE hint = "\"Windows\"" -> "Windows"
      [] hint = "\"macOS\"" -> "macOS"
      [] hint = "\"Linux\"" -> "Linux"
      [] OTHER -> "none"

NamesApple(s) == Contains(ToLower(s), <<"a", "p", "p", "l", "e">>)

\* C23: no catalog profile with the platform tag Win32 declares an Apple
\* graphics vendor or renderer, and the Sec-Ch-Ua-Platform header derived for
\* a profile names the operating system of the profile's platform tag.
C23_ProfilesConsistent ==
    /\ \A p \in Catalog :
          p.Platform = "Win32" => ~NamesApple(p.WebGLVendor) /\ ~NamesApple(p.WebGLRenderer)
    /\ identity # NoAgent =>
          OSOfHint(identity.Headers["Sec-Ch-Ua-Platform"]) = OSOfPlatform(identity.Profile.Platform)

C23_Witness ==
    /\ identity # NoAgent
    /\ identity.Profile.Platform = "MacIntel"
    /\ NamesApple(identity.Profile.WebGLVendor)
    /\ identity.Headers["Sec-Ch-Ua-Platform"] = "\"macOS\""

\* the header set and the cookie set of the agent id, as maps
HeaderSet(h, agents, id) == h[agents[id].Headers]

CookieSet(h, agents, id) == h[agents[id].Cookies]

CookieOps == {"AddCookie", "RemoveCookie", "ClearCookies"}

\* C24: a cookie operation on one identity leaves the cookie set and the
\* header set of every other identity unchanged, also when both were created
\* from the same profile; no two identities hold the same map; after
\* ClearCookies the identity's own cookie set is empty.
C24_IdentitiesShareNothing ==
    /\ [][call'.op \in CookieOps =>
             \A other \in DOMAIN fleet \ {call'.id} :
                /\ other \in DOMAIN fleet'
                /\ CookieSet(heap', fleet', other) = CookieSet(heap, fleet, other)
                /\ HeaderSet(heap', fleet', other) = HeaderSet(heap, fleet, other)]_vars
    /\ [][call'.op \in CookieOps /\ call'.id \in DOMAIN fleet =>
             HeaderSet(heap', fleet', call'.id) = HeaderSet(heap, fleet, call'.id)]_vars
    /\ [](call.op = "ClearCookies" => CookieSet(heap, fleet, call.id) = EmptyMap)
    /\ [](\A a, b \in DOMAIN fleet :
             /\ fleet[a].Headers # fleet[b].Cookies
             /\ a # b => fleet[a].Headers # fleet[b].Headers /\ fleet[a].Cookies # fleet[b].Cookies)

C24_Witness ==
    /\ call.op = "ClearCookies"
    /\ DOMAIN fleet = FleetIDs
    /\ fleet["agent-1"].Profile = fleet["agent-2"].Profile
    /\ \E other \in FleetIDs \ {call.id} :
          DOMAIN CookieSet(heap, fleet, other) = CookieNames

\* C26: in every outcome TestURL returned, Success and HasCloudflare are not
\* both true; Success implies an empty error description; a non-empty error
\* description implies that Success and HasCloudflare are false and the
\* content excerpt is empty.
C26_OutcomeWellFormed ==
    \A k \in 1..Len(results) :
       LET r == results[k]
       IN  /\ ~(r.Success /\ r.HasCloudflare)
           /\ r.Success => r.ErrorMessage = Nil
           /\ r.ErrorMessage # Nil =>
                 ~r.Success /\ ~r.HasCloudflare /\ r.ContentSnippet = Nil

C26_Witness ==
    /\ Returned
    /\ LastResult.ErrorMessage # Nil
    /\ LastResult.ContentLength > MinContentLength
    /\ LastResult.Title # Nil
    /\ ~HasCloudflare(bodyHTML)
    /\ ~LastResult.Success
    /\ LastResult.ContentSnippet = Nil

\* the last n entries of a sequence
LastN(s, n) == SubSeq(s, Len(s) - n + 1, Len(s))

\* s is the list read once around in list order, from some position on
IsRotationOf(s, list) ==
    /\ Len(s) = Len(list)
    /\ \E k \in 0..(Len(list) - 1) :
          \A j \in 1..Len(list) : s[j] = list[((k + j - 1) % Len(list)) + 1]

\* C27: with rotation enabled and a list of length L > 0, GetNextProxy returns
\* the entry at CurrentIndex and advances CurrentIndex by one modulo L, so L
\* consecutive calls return the list once around in list order; CurrentIndex
\* stays within 0..L-1 (0 for an empty list) after any sequence of
\* GetNextProxy, AddProxyToList and LoadProxyList; with rotation disabled or
\* an empty list GetNextProxy returns URL and leaves CurrentIndex unchanged.
C27_RoundRobin ==
    /\ [](LET L == Len(proxyConfig.ProxyList)
          IN  IF L = 0 THEN proxyConfig.CurrentIndex = 0
              ELSE proxyConfig.CurrentIndex \in 0..(L - 1))
    /\ [][call'.op = "GetNextProxy" /\ <<call, proxyConfig>>' # <<call, proxyConfig>> =>
             LET L == Len(proxyConfig.ProxyList)
             IN  IF proxyConfig.RotationEnabled /\ L > 0
                 THEN /\ call'.ret = proxyConfig.ProxyList[proxyConfig.CurrentIndex + 1]
                      /\ proxyConfig'.CurrentIndex = (proxyConfig.CurrentIndex + 1) % L
                      /\ proxyConfig'.ProxyList = proxyConfig.ProxyList
                 ELSE /\ call'.ret = proxyConfig.URL
                      /\ proxyConfig' = proxyConfig]_vars
    /\ [](LET L == Len(proxyConfig.ProxyList)
          IN  proxyConfig.RotationEnabled /\ L > 0 /\ Len(Recent) >= L =>
                 IsRotationOf(LastN(Recent, L), proxyConfig.ProxyList))

C27_Witness ==
    /\ proxyConfig.RotationEnabled
    /\ Len(proxyConfig.ProxyList) = 3
    /\ Len(Recent) = 3
    /\ proxyConfig.CurrentIndex = 1
    /\ Recent[1] = proxyConfig.ProxyList[2]
    /\ Recent[3] = proxyConfig.ProxyList[1]

\* C28: every step of a ProxyConfig method that reads or writes URL,
\* ProxyList or CurrentIndex is taken while the goroutine holds mu.
C28_AccessesUnderLock ==
    \A w \in DOMAIN workers :
       workers[w].access.fields # {} => workers[w].access.locked

\* one iteration of the loop of WaitForContent
PollStep == sim.op = "WaitForContent" /\ sim.pc = "poll" /\ sim'.polls = sim.polls + 1

\* C29: WaitForContent always terminates: a poll that reports, without error,
\* a length of at least minContentLength returns success at once; any other
\* poll returns the timeout error if maxWaitTime has elapsed and is followed by
\* another poll if not; success is never returned while the last length is
\* below minContentLength, and the error of a failed poll is never returned.
C29_WaitTerminates ==
    /\ [][PollStep =>
            LET ready == sim'.pollErr = NoError /\ sim'.contentLength >= sim.minContentLength
            IN  /\ ready => sim'.pc = "returned" /\ sim'.ret = NoError
                /\ ~ready /\ sim'.pc = "returned" =>
                      sim'.ret = TimeoutError /\ sim'.elapsed > sim.maxWaitTime
                /\ ~ready /\ sim'.pc # "returned" =>
                      /\ sim'.pc = "poll"
                      /\ sim'.elapsed - 500 * Millisecond <= sim.maxWaitTime
                      /\ sim'.elapsed > sim.elapsed]_vars
    /\ [](sim # <<>> /\ sim.op = "WaitForContent" /\ sim.pc = "returned" =>
            /\ sim.ret \in {NoError, TimeoutError}
            /\ sim.ret = NoError =>
                  sim.pollErr = NoError /\ sim.contentLength >= sim.minContentLength)
    /\ (sim # <<>> /\ sim.op = "WaitForContent" /\ sim.pc = "poll")
          ~> (sim.op = "WaitForContent" /\ sim.pc = "returned")

C29_Witness ==
    /\ sim.op = "WaitForContent"
    /\ sim.pc = "returned"
    /\ sim.ret = TimeoutError
    /\ sim.pollErr = EvaluateError
    /\ sim.polls >= 3
    /\ sim.minContentLength = MinContentLength

\* the IDs of the identities the pool stores
StoredIDs == {Agents[k].ID : k \in DOMAIN Agents}

\* C30: AddAgent of an identity whose ID the pool already holds stores the new
\* identity in place of the old one, leaving the size as it was, when the pool
\* is below its ceiling, and is rejected with the pool-full error, leaving the
\* pool as it was, when the pool is at its ceiling; the size of the pool is
\* always the number of distinct IDs it stores.
C30_DuplicateID ==
    /\ [][\A agent \in AgentValues :
            AddAgent(agent) /\ agent.ID \in DOMAIN Agents =>
               IF GetPoolSize < MaxAgents
               THEN /\ lastCall'.err = NoError
                    /\ Agents'[agent.ID] = agent
                    /\ DOMAIN Agents' = DOMAIN Agents
                    /\ Cardinality(DOMAIN Agents') = GetPoolSize
               ELSE /\ lastCall'.err = PoolFull
                    /\ Agents' = Agents]_vars
    /\ [](Cardinality(StoredIDs) = GetPoolSize /\ StoredIDs = DOMAIN Agents)

\* a rejected AddAgent of an ID that a full pool already holds
C30_Witness ==
    /\ lastCall.op = "AddAgent"
    /\ lastCall.err = PoolFull
    /\ lastCall.id \in DOMAIN Agents
    /\ GetPoolSize = MaxAgents
    /\ MaxAgents >= 1

====
